---- MODULE Spec2Model ----
(***************************************************************************)
(* TaskFlow CLI: the record store (.taskflow.yaml), the add / done / list  *)
(* / show commands and the list command's filter and sort pipeline.        *)
(***************************************************************************)
EXTENDS Integers, Sequences, FiniteSets, TLC

VARIABLES
  fileExists,    \* fs.existsSync(getTaskFilePath())
  fileContents,  \* the text of .taskflow.yaml
  today,         \* the calendar day of the process clock (index into DateTexts)
  result,        \* what the last command invocation returned
  assigned,      \* history: the ids that successful adds have reported so far
  lastAdd,       \* history: the last successful add (its id, the ids assigned
                 \*   before it and the ids the store held when it began)
  doneLog,       \* history: for each id seen done in the store, the completed
                 \*   date it had when first seen
  tasks,         \* library level: the array or record the caller holds in memory
  input,         \* library level: the arguments of the last library call, as
                 \*   they were when it was made
  ret,           \* library level: what the last library call returned
  op             \* library level: the last library call made

vars == <<fileExists, fileContents, today, result, assigned, lastAdd, doneLog, tasks, input, ret, op>>

(***************************************************************************)
(* Bounds of the model.                                                    *)
(***************************************************************************)
MaxTasks == 2   \* runAdd is offered while the store holds fewer records
MaxDay == 2     \* the clock advances up to this day
MaxLen == 2     \* longest array handed to a library function
MaxNewId == 4   \* runAdd is offered while the id it would assign is no larger

(***************************************************************************)
(* JavaScript values.  Every value is a record of the same four fields so  *)
(* that values of different types can be compared.                         *)
(***************************************************************************)
Val(ty, str, num, its) == [type |-> ty, s |-> str, n |-> num, items |-> its]
Undefined == Val("undefined", "", 0, <<>>)
Null == Val("null", "", 0, <<>>)
Str(str) == Val("string", str, 0, <<>>)
Num(num) == Val("number", "", num, <<>>)
Bool(b) == Val("boolean", IF b THEN "true" ELSE "false", 0, <<>>)
DateObj(str) == Val("date", str, 0, <<>>)
Arr(its) == Val("array", "", 0, its)

\* JavaScript truthiness: !!v
Truthy(v) ==
  CASE v.type = "undefined" -> FALSE
    [] v.type = "null" -> FALSE
    [] v.type = "string" -> v.s # ""
    [] v.type = "number" -> v.n # 0
    [] v.type = "boolean" -> v.s = "true"
    [] OTHER -> TRUE

\* An object is a value whose items are a function from its property names
\* to their values.
Obj(props) == Val("object", "", 0, props)
FieldOrder == <<"id", "text", "priority", "tags", "status", "created", "completed">>
FieldNames == {FieldOrder[i] : i \in 1..Len(FieldOrder)}

\* The property names an object has.
Keys(v) == IF v.type = "object" THEN DOMAIN v.items ELSE {}

\* v.f : undefined when v has no such property
Get(v, f) == IF f \in Keys(v) THEN v.items[f] ELSE Undefined

\* v.f throws a TypeError: v is null or undefined
HasNoProperties(v) == v.type \in {"null", "undefined"}

\* A task object literal with the seven properties.
MkTask(id, text, priority, tags, status, created, completed) ==
  Obj([f \in FieldNames |->
     CASE f = "id" -> id
       [] f = "text" -> text
       [] f = "priority" -> priority
       [] f = "tags" -> tags
       [] f = "status" -> status
       [] f = "created" -> created
       [] f = "completed" -> completed])

\* The object without property f (a hand-edited record that lacks a field).
Without(v, f) == Obj([g \in Keys(v) \ {f} |-> v.items[g]])

\* The object after the assignment v.f = x
With(v, f, x) == Obj([g \in Keys(v) \cup {f} |-> IF g = f THEN x ELSE v.items[g]])

(***************************************************************************)
(* Text.  TLC cannot look inside a string, so the text functions the code  *)
(* uses are tables over the strings of the model.                          *)
(***************************************************************************)
DigitTexts == <<"1", "2", "3", "4", "5", "6", "7", "8", "9">>
DateTexts == <<"2025-12-02", "2025-12-03", "2025-12-04", "2025-12-05">>

\* String(n) for a small non-negative integer
IntText(num) == IF num = 0 THEN "0" ELSE DigitTexts[num]
TextInt(str) == IF str = "0" THEN 0 ELSE CHOOSE i \in 1..Len(DigitTexts) : DigitTexts[i] = str

\* str.trim()
Trim(str) ==
  CASE str = "  " -> ""
    [] str = " api " -> "api"
    [] OTHER -> str

\* str.toLowerCase()
ToLowerCase(str) ==
  CASE str = "HIGH" -> "high"
    [] str = "Low" -> "low"
    [] str = "Fix bug" -> "fix bug"
    [] str = "Write docs" -> "write docs"
    [] OTHER -> str

\* str.startsWith('-')
StartsWithDash(str) == str \in {"-p", "--priority", "-t", "--tag", "-h", "--help", "-a", "--all", "--done", "-1", "-x"}

(***************************************************************************)
(* YAML text.  The text of the file is held as the nodes its lines spell   *)
(* out: a scalar with its style (plain or quoted) and its characters, a    *)
(* sequence (block, or the flow "[]" when empty) of nodes, a mapping from  *)
(* keys to nodes; or text with no node at all ("blank"), or text that is   *)
(* not YAML ("invalid").  A scalar's value is decided when it is read.     *)
(***************************************************************************)
SCHEMA_VERSION == 1

IntTexts == {"0"} \cup {DigitTexts[i] : i \in 1..Len(DigitTexts)}
DateTextSet == {DateTexts[i] : i \in 1..Len(DateTexts)}

Scalar(style, t) == [node |-> "scalar", style |-> style, txt |-> t]
BlankText == [node |-> "blank"]
WhitespaceText == [node |-> "blank", txt |-> "   "]
\* Text that is not YAML, with what the parser says about it.
ParserMessages ==
  { "bad indentation of a mapping entry",
    "unexpected end of the stream within a flow collection",
    "duplicated mapping key" }
InvalidTexts == {[node |-> "invalid", problem |-> m] : m \in ParserMessages}
InvalidText == [node |-> "invalid", problem |-> "bad indentation of a mapping entry"]

\* The value the YAML loader gives a plain (unquoted) scalar: the core
\* schema's null, boolean and integer, js-yaml's timestamp, else the string.
ResolvePlain(str) ==
  IF str \in {"null", "~", ""} THEN Null
  ELSE IF str \in {"true", "false"} THEN Bool(str = "true")
  ELSE IF str \in IntTexts THEN Num(TextInt(str))
  ELSE IF str \in DateTextSet THEN DateObj(str)
  ELSE Str(Trim(str))

\* js-yaml's dumper writes a string plain only when the plain text is safe
\* and would not be resolved to another type; otherwise it quotes it.
NeedsQuote(str) ==
  \/ ResolvePlain(str) # Str(str)
  \/ StartsWithDash(str)

\* yaml.dump(value, { indent: 2, lineWidth: -1, noRefs: true, sortKeys: false })
RECURSIVE yamlDump(_)
yamlDump(v) ==
  CASE v.type = "array" ->
         [node |-> "seq", flow |-> v.items = <<>>,
          items |-> [i \in 1..Len(v.items) |-> yamlDump(v.items[i])]]
    [] v.type = "object" ->
         [node |-> "map", entries |-> [k \in DOMAIN v.items |-> yamlDump(v.items[k])]]
    [] v.type = "string" -> Scalar(IF NeedsQuote(v.s) THEN "quoted" ELSE "plain", v.s)
    [] v.type = "number" -> Scalar("plain", IntText(v.n))
    [] v.type = "null" -> Scalar("plain", "null")
    [] OTHER -> Scalar("plain", v.s)

\* The value of a node.
RECURSIVE NodeValue(_)
NodeValue(nd) ==
  CASE nd.node = "seq" -> Arr([i \in 1..Len(nd.items) |-> NodeValue(nd.items[i])])
    [] nd.node = "map" -> Obj([k \in DOMAIN nd.entries |-> NodeValue(nd.entries[k])])
    [] nd.node = "scalar" -> IF nd.style = "quoted" THEN Str(nd.txt) ELSE ResolvePlain(nd.txt)
    [] OTHER -> Undefined

\* yaml.load(contents): the document's value, or a YAMLException.
yamlLoad(contents) ==
  IF contents.node = "invalid"
    THEN [threw |-> TRUE, message |-> contents.problem, value |-> Undefined]
    ELSE [threw |-> FALSE, message |-> "", value |-> NodeValue(contents)]

(***************************************************************************)
(* The storage module.                                                     *)
(***************************************************************************)

\* What a call comes to: the value it returns, or the Error it throws, whose
\* message is the sequence of the parts its text is put together from.
Returned(v) == [threw |-> FALSE, message |-> <<>>, value |-> v]
Thrown(msg) == [threw |-> TRUE, message |-> msg, value |-> Undefined]

\* A loadTasks that takes a document without a tasks array for an error.
LoadFrom_Strict(exists, contents) ==
  IF ~exists THEN Returned(Arr(<<>>))
  ELSE IF contents.node = "blank" THEN Returned(Arr(<<>>))
  ELSE LET parsed == yamlLoad(contents)
       IN  IF parsed.threw \/ Get(parsed.value, "tasks").type # "array"
             THEN Thrown(<<"Invalid .taskflow.yaml: ", parsed.message>>)
             ELSE Returned(Get(parsed.value, "tasks"))

\* A loadTasks that takes text that is not YAML for an empty store.
LoadFrom_Lenient(exists, contents) ==
  IF ~exists THEN Returned(Arr(<<>>))
  ELSE IF contents.node = "blank" THEN Returned(Arr(<<>>))
  ELSE LET parsed == yamlLoad(contents)
           data == parsed.value
       IN  IF parsed.threw \/ ~Truthy(data) THEN Returned(Arr(<<>>))
           ELSE IF ~Truthy(Get(data, "tasks")) \/ Get(data, "tasks").type # "array"
             THEN Returned(Arr(<<>>))
           ELSE Returned(Get(data, "tasks"))

\* The body of loadTasks() as a function of what it reads: whether the file
\* exists and its text.
LoadFrom(exists, contents) ==
  IF ~exists THEN Returned(Arr(<<>>))
  ELSE IF contents.node = "blank" THEN Returned(Arr(<<>>))
  ELSE LET parsed == yamlLoad(contents)
           data == parsed.value
       IN  IF parsed.threw THEN Thrown(<<"Invalid .taskflow.yaml: ", parsed.message>>)
           ELSE IF ~Truthy(data) THEN Returned(Arr(<<>>))
           ELSE IF ~Truthy(Get(data, "tasks")) \/ Get(data, "tasks").type # "array"
             THEN Returned(Arr(<<>>))
           ELSE Returned(Get(data, "tasks"))

\* A loadTasks that was never implemented: it ignores the file.
loadTasks_Stub == Returned(Arr(<<>>))

\* loadTasks() in the current state.
loadTasks == LoadFrom(fileExists, fileContents)

\* A saveTasks that writes what it is given, without the fallback to [].
saveTasks_NoDefault(tasksVal) ==
  yamlDump(Obj([k \in {"version", "tasks"} |->
                 IF k = "version" THEN Num(SCHEMA_VERSION) ELSE tasksVal]))

\* A saveTasks that keeps the records the file already holds.
saveTasks_Merge(tasksVal) ==
  LET loaded == LoadFrom(fileExists, fileContents)
      kept == IF loaded.threw THEN <<>> ELSE loaded.value.items
  IN  yamlDump(Obj([k \in {"version", "tasks"} |->
                     IF k = "version" THEN Num(SCHEMA_VERSION)
                     ELSE Arr(kept \o (IF Truthy(tasksVal) THEN tasksVal.items ELSE <<>>))]))

\* saveTasks(tasks): the text written to the file.
saveTasks(tasksVal) ==
  yamlDump(Obj([k \in {"version", "tasks"} |->
                 IF k = "version" THEN Num(SCHEMA_VERSION)
                 ELSE IF Truthy(tasksVal) THEN tasksVal ELSE Arr(<<>>)]))

\* t.id || 0
IdOrZero(t) == IF Truthy(Get(t, "id")) THEN Get(t, "id").n ELSE 0

\* A largest id taken from the first record alone.
MaxId_First(items, i) == IdOrZero(items[i])

\* Math.max(...tasks.map(t => t.id || 0)) over items i..Len
RECURSIVE MaxId(_, _)
MaxId(items, i) ==
  IF i = Len(items) THEN IdOrZero(items[i])
  ELSE LET rest == MaxId(items, i + 1)
       IN  IF IdOrZero(items[i]) >= rest THEN IdOrZero(items[i]) ELSE rest

\* A next id taken from the number of records instead of the largest id.
getNextId_Count(tasksVal) ==
  IF ~Truthy(tasksVal) THEN 1 ELSE Len(tasksVal.items) + 1

\* A getNextId that was never implemented: it always answers 1.
getNextId_Stub(tasksVal) == 1

\* getNextId(tasks)
getNextId(tasksVal) ==
  IF ~Truthy(tasksVal) \/ Len(tasksVal.items) = 0 THEN 1
  ELSE MaxId(tasksVal.items, 1) + 1

\* getNextId(tasks) throws: t.id on an element that is null
getNextIdRaises(tasksVal) ==
  /\ Truthy(tasksVal)
  /\ \E k \in 1..Len(tasksVal.items) : HasNoProperties(tasksVal.items[k])

\* getTodayDate() on day d: 'YYYY-MM-DD'
DateText(d) == DateTexts[d]
getTodayDate == Str(DateText(today))

\* options.f when it is given (not undefined, null or empty), else the default
OptionOr(options, f, default) ==
  IF Truthy(Get(options, f)) THEN Get(options, f) ELSE default

\* A createTask that returns the text alone: { text }.
createTask_Stub(text, options) == Returned(Obj([f \in {"text"} |-> text]))

\* A createTask with one message for every text it rejects.
createTask_OneReason(text, options) ==
  IF text.type # "string" \/ Trim(text.s) = "" THEN Thrown(<<"Task text is required">>)
  ELSE Returned(MkTask(OptionOr(options, "id", Null),
                       Str(Trim(text.s)),
                       OptionOr(options, "priority", Str("medium")),
                       IF Get(options, "tags").type = "array"
                         THEN Arr(Get(options, "tags").items) ELSE Arr(<<>>),
                       OptionOr(options, "status", Str("open")),
                       OptionOr(options, "created", getTodayDate),
                       OptionOr(options, "completed", Null)))

\* createTask(text, options): the record with defaults applied, or an Error
\* that tells missing text from empty text from text of the wrong type.
createTask(text, options) ==
  IF text.type \in {"null", "undefined"} THEN Thrown(<<"Task text is required">>)
  ELSE IF text.type # "string" THEN Thrown(<<"Task text must be a string">>)
  ELSE IF Trim(text.s) = "" THEN Thrown(<<"Task text is required (empty)">>)
  ELSE Returned(MkTask(OptionOr(options, "id", Null),
                       Str(Trim(text.s)),
                       OptionOr(options, "priority", Str("medium")),
                       IF Get(options, "tags").type = "array"
                         THEN Arr(Get(options, "tags").items) ELSE Arr(<<>>),
                       OptionOr(options, "status", Str("open")),
                       OptionOr(options, "created", getTodayDate),
                       OptionOr(options, "completed", Null)))

(***************************************************************************)
(* The add command.                                                        *)
(***************************************************************************)
VALID_PRIORITIES == <<"high", "medium", "low">>

\* VALID_PRIORITIES.includes(str)
IsValidPriority(str) == \E i \in 1..Len(VALID_PRIORITIES) : VALID_PRIORITIES[i] = str

\* parseAddArgs(args): the loop from position i with the result so far.
RECURSIVE ParseAddFrom(_, _, _)
ParseAddFrom(args, i, acc) ==
  IF i > Len(args) THEN acc
  ELSE LET arg == args[i] IN
    IF arg \in {"--priority", "-p"} THEN
      IF i + 1 <= Len(args)
        THEN ParseAddFrom(args, i + 2, [acc EXCEPT !.priority = Str(args[i + 1])])
        ELSE ParseAddFrom(args, i + 1, acc)
    ELSE IF arg \in {"--tag", "-t"} THEN
      IF i + 1 <= Len(args)
        THEN ParseAddFrom(args, i + 2,
               IF Trim(args[i + 1]) # ""
                 THEN [acc EXCEPT !.tags = Append(@, Str(Trim(args[i + 1])))]
                 ELSE acc)
        ELSE ParseAddFrom(args, i + 1, acc)
    ELSE IF arg \in {"--help", "-h"} THEN
      ParseAddFrom(args, i + 1, [acc EXCEPT !.help = TRUE])
    ELSE IF acc.text = Null /\ ~StartsWithDash(arg) THEN
      ParseAddFrom(args, i + 1, [acc EXCEPT !.text = Str(arg)])
    ELSE ParseAddFrom(args, i + 1, acc)

parseAddArgs(args) ==
  ParseAddFrom(args, 1, [text |-> Null, priority |-> Null, tags |-> <<>>, help |-> FALSE])

\* validateAddInput(text, priority): the code of the Error thrown, or "ok".
validateAddInput(text, priority) ==
  IF text.type \in {"null", "undefined"} THEN "MISSING_TEXT"
  ELSE IF text.type # "string" \/ Trim(text.s) = "" THEN "EMPTY_TEXT"
  ELSE IF priority.type \notin {"null", "undefined"}
          /\ ~IsValidPriority(ToLowerCase(priority.s)) THEN "INVALID_PRIORITY"
  ELSE "ok"

\* What a command did: the result it returned (of its output, the kind of
\* message, the id it names and the ids of the tasks it prints, in order) and
\* what it wrote to the file, if it wrote.  Kind UNCAUGHT: it returned
\* nothing, an error it does not catch went through it.
Outcome(cmd, success, exitCode, kind, id, shown, wrote, contents) ==
  [result |-> [cmd |-> cmd, success |-> success, exitCode |-> exitCode,
               kind |-> kind, id |-> id,
               shown |-> [i \in 1..Len(shown) |-> Get(shown[i], "id")]],
   wrote |-> wrote, contents |-> contents]

\* A runAdd that puts the new task before the tasks it loaded (unshift).
runAdd_Prepend(args, loaded) ==
  LET parsed == parseAddArgs(args)
      check == validateAddInput(parsed.text, parsed.priority)
      priority == IF Truthy(parsed.priority) THEN Str(ToLowerCase(parsed.priority.s)) ELSE Null
      nextId == getNextId(loaded.value)
      created == createTask(parsed.text,
                            Obj([f \in {"id", "priority", "tags"} |->
                                   CASE f = "id" -> Num(nextId)
                                     [] f = "priority" -> priority
                                     [] f = "tags" -> Arr(parsed.tags)]))
      pushed == Arr(<<created.value>> \o loaded.value.items)
  IN  IF parsed.help THEN Outcome("add", TRUE, 0, "help", 0, <<>>, FALSE, <<>>)
      ELSE IF check # "ok" THEN Outcome("add", FALSE, 1, check, 0, <<>>, FALSE, <<>>)
      ELSE IF loaded.threw THEN Outcome("add", FALSE, 1, "LOAD_ERROR", 0, <<>>, FALSE, <<>>)
      ELSE IF getNextIdRaises(loaded.value) THEN Outcome("add", FALSE, 1, "UNCAUGHT", 0, <<>>, FALSE, <<>>)
      ELSE IF created.threw THEN Outcome("add", FALSE, 1, "UNCAUGHT", 0, <<>>, FALSE, <<>>)
      ELSE Outcome("add", TRUE, 0, "added", nextId, <<created.value>>, TRUE, saveTasks(pushed))

\* A runAdd that stores the priority as it was typed.
runAdd_AsGiven(args, loaded) ==
  LET parsed == parseAddArgs(args)
      check == validateAddInput(parsed.text, parsed.priority)
      nextId == getNextId(loaded.value)
      created == createTask(parsed.text,
                            Obj([f \in {"id", "priority", "tags"} |->
                                   CASE f = "id" -> Num(nextId)
                                     [] f = "priority" -> parsed.priority
                                     [] f = "tags" -> Arr(parsed.tags)]))
      pushed == Arr(Append(loaded.value.items, created.value))
  IN  IF parsed.help THEN Outcome("add", TRUE, 0, "help", 0, <<>>, FALSE, <<>>)
      ELSE IF check # "ok" THEN Outcome("add", FALSE, 1, check, 0, <<>>, FALSE, <<>>)
      ELSE IF loaded.threw THEN Outcome("add", FALSE, 1, "LOAD_ERROR", 0, <<>>, FALSE, <<>>)
      ELSE IF created.threw THEN Outcome("add", FALSE, 1, "UNCAUGHT", 0, <<>>, FALSE, <<>>)
      ELSE Outcome("add", TRUE, 0, "added", nextId, <<created.value>>, TRUE, saveTasks(pushed))

\* runAdd(args); loaded is what its call of loadTasks() returns.
runAdd(args, loaded) ==
  LET parsed == parseAddArgs(args)
      check == validateAddInput(parsed.text, parsed.priority)
      priority == IF Truthy(parsed.priority) THEN Str(ToLowerCase(parsed.priority.s)) ELSE Null
      nextId == getNextId(loaded.value)
      created == createTask(parsed.text,
                            Obj([f \in {"id", "priority", "tags"} |->
                                   CASE f = "id" -> Num(nextId)
                                     [] f = "priority" -> priority
                                     [] f = "tags" -> Arr(parsed.tags)]))
      pushed == Arr(Append(loaded.value.items, created.value))
  IN  IF parsed.help THEN Outcome("add", TRUE, 0, "help", 0, <<>>, FALSE, <<>>)
      ELSE IF check # "ok" THEN Outcome("add", FALSE, 1, check, 0, <<>>, FALSE, <<>>)
      ELSE IF loaded.threw THEN Outcome("add", FALSE, 1, "LOAD_ERROR", 0, <<>>, FALSE, <<>>)
      ELSE IF getNextIdRaises(loaded.value) THEN Outcome("add", FALSE, 1, "UNCAUGHT", 0, <<>>, FALSE, <<>>)
      ELSE IF created.threw THEN Outcome("add", FALSE, 1, "UNCAUGHT", 0, <<>>, FALSE, <<>>)
      ELSE Outcome("add", TRUE, 0, "added", nextId, <<created.value>>, TRUE, saveTasks(pushed))

(***************************************************************************)
(* The done command.                                                       *)
(***************************************************************************)

\* parseDoneArgs(args): the loop from position i with the result so far.
RECURSIVE ParseIdFrom(_, _, _)
ParseIdFrom(args, i, acc) ==
  IF i > Len(args) THEN acc
  ELSE IF args[i] \in {"--help", "-h"} THEN ParseIdFrom(args, i + 1, [acc EXCEPT !.help = TRUE])
  ELSE IF acc.id = Null /\ ~StartsWithDash(args[i])
    THEN ParseIdFrom(args, i + 1, [acc EXCEPT !.id = Str(args[i])])
  ELSE ParseIdFrom(args, i + 1, acc)

parseDoneArgs(args) == ParseIdFrom(args, 1, [id |-> Null, help |-> FALSE])

\* validateTaskId(idStr): Number(idStr) must be a positive whole number.
validateTaskId(idStr) ==
  IF idStr.type \in {"null", "undefined"} THEN [valid |-> FALSE, id |-> 0, error |-> "ID_REQUIRED"]
  ELSE IF Trim(idStr.s) = "" THEN [valid |-> FALSE, id |-> 0, error |-> "ID_REQUIRED"]
  ELSE IF idStr.s = "1.5" THEN [valid |-> FALSE, id |-> 0, error |-> "ID_NOT_WHOLE"]
  ELSE IF idStr.s \notin IntTexts THEN [valid |-> FALSE, id |-> 0, error |-> "ID_NOT_NUMBER"]
  ELSE IF TextInt(idStr.s) <= 0 THEN [valid |-> FALSE, id |-> 0, error |-> "ID_NOT_POSITIVE"]
  ELSE [valid |-> TRUE, id |-> TextInt(idStr.s), error |-> ""]

\* The position of the first task with task.id === id, 0 when there is none.
RECURSIVE FindIndex(_, _, _)
FindIndex(items, id, i) ==
  IF i > Len(items) THEN 0
  ELSE IF Get(items[i], "id") = Num(id) THEN i
  ELSE FindIndex(items, id, i + 1)

\* findTaskById(tasks, id)
findTaskById(tasksVal, id) ==
  IF ~Truthy(tasksVal) \/ tasksVal.type # "array" THEN Null
  ELSE IF FindIndex(tasksVal.items, id, 1) = 0 THEN Null
  ELSE tasksVal.items[FindIndex(tasksVal.items, id, 1)]

\* findTaskById(tasks, id) throws: task.id on a null element that find
\* comes to before a task with the id
findTaskByIdRaises(tasksVal, id) ==
  /\ Truthy(tasksVal) /\ tasksVal.type = "array"
  /\ \E k \in 1..Len(tasksVal.items) :
       /\ HasNoProperties(tasksVal.items[k])
       /\ \A j \in 1..(k - 1) : Get(tasksVal.items[j], "id") # Num(id)

\* task.tags && task.tags.length > 0 ? task.tags.map(...) throws: the tags
\* are a string, which has a length and no map
TagsMapRaises(task) ==
  Get(task, "tags").type = "string" /\ Get(task, "tags").s # ""

\* A markTaskDone that sets the status and forgets the completion date.
markTaskDone_StatusOnly(task) ==
  IF Get(task, "status") = Str("done") THEN [returns |-> FALSE, task |-> task]
  ELSE [returns |-> TRUE, task |-> With(task, "status", Str("done"))]

\* A markTaskDone without its guard: it stamps the task whatever its status.
markTaskDone_Restamp(task) ==
  [returns |-> TRUE,
   task |-> With(With(task, "status", Str("done")), "completed", getTodayDate)]

\* A markTaskDone that stamps the creation date as well.
markTaskDone_Unframed(task) ==
  IF Get(task, "status") = Str("done") THEN [returns |-> FALSE, task |-> task]
  ELSE [returns |-> TRUE,
        task |-> With(With(With(task, "status", Str("done")), "completed", getTodayDate),
                      "created", getTodayDate)]

\* markTaskDone(task): what it returns and the task object afterwards.
markTaskDone(task) ==
  IF Get(task, "status") = Str("done") THEN [returns |-> FALSE, task |-> task]
  ELSE [returns |-> TRUE,
        task |-> With(With(task, "status", Str("done")), "completed", getTodayDate)]

\* A runDone that reports the already-done case as a failure with exit
\* code 0.
runDone_Partial(args, loaded) ==
  LET parsed == parseDoneArgs(args)
      validation == validateTaskId(parsed.id)
      taskId == validation.id
      task == findTaskById(loaded.value, taskId)
      wasAlreadyDone == Get(task, "status") = Str("done")
      marked == markTaskDone(task)
      at == FindIndex(loaded.value.items, taskId, 1)
      mutated == Arr([loaded.value.items EXCEPT ![at] = marked.task])
  IN  IF parsed.help THEN Outcome("done", TRUE, 0, "help", 0, <<>>, FALSE, <<>>)
      ELSE IF ~validation.valid THEN Outcome("done", FALSE, 1, validation.error, 0, <<>>, FALSE, <<>>)
      ELSE IF loaded.threw THEN Outcome("done", FALSE, 1, "LOAD_ERROR", 0, <<>>, FALSE, <<>>)
      ELSE IF findTaskByIdRaises(loaded.value, taskId)
        THEN Outcome("done", FALSE, 1, "UNCAUGHT", 0, <<>>, FALSE, <<>>)
      ELSE IF ~Truthy(task) THEN Outcome("done", FALSE, 1, "NOT_FOUND", taskId, <<>>, FALSE, <<>>)
      ELSE IF wasAlreadyDone THEN
        IF TagsMapRaises(task) THEN Outcome("done", FALSE, 1, "UNCAUGHT", 0, <<>>, FALSE, <<>>)
        ELSE Outcome("done", FALSE, 0, "already", taskId, <<task>>, FALSE, <<>>)
      ELSE IF TagsMapRaises(task)
        THEN Outcome("done", FALSE, 1, "UNCAUGHT", 0, <<>>, TRUE, saveTasks(mutated))
      ELSE Outcome("done", TRUE, 0, "completed", taskId, <<marked.task>>, TRUE, saveTasks(mutated))

\* A runDone without the already-done check: it stamps and saves the task
\* whatever its status.
runDone_Restamp(args, loaded) ==
  LET parsed == parseDoneArgs(args)
      validation == validateTaskId(parsed.id)
      taskId == validation.id
      task == findTaskById(loaded.value, taskId)
      marked == markTaskDone_Restamp(task)
      at == FindIndex(loaded.value.items, taskId, 1)
      mutated == Arr([loaded.value.items EXCEPT ![at] = marked.task])
  IN  IF parsed.help THEN Outcome("done", TRUE, 0, "help", 0, <<>>, FALSE, <<>>)
      ELSE IF ~validation.valid THEN Outcome("done", FALSE, 1, validation.error, 0, <<>>, FALSE, <<>>)
      ELSE IF loaded.threw THEN Outcome("done", FALSE, 1, "LOAD_ERROR", 0, <<>>, FALSE, <<>>)
      ELSE IF ~Truthy(task) THEN Outcome("done", FALSE, 1, "NOT_FOUND", taskId, <<>>, FALSE, <<>>)
      ELSE Outcome("done", TRUE, 0, "completed", taskId, <<marked.task>>, TRUE, saveTasks(mutated))

\* A runDone that saves the array also when the task was done already.
runDone_Rewrites(args, loaded) ==
  LET parsed == parseDoneArgs(args)
      validation == validateTaskId(parsed.id)
      taskId == validation.id
      task == findTaskById(loaded.value, taskId)
      wasAlreadyDone == Get(task, "status") = Str("done")
      marked == markTaskDone(task)
      at == FindIndex(loaded.value.items, taskId, 1)
      mutated == Arr([loaded.value.items EXCEPT ![at] = marked.task])
  IN  IF parsed.help THEN Outcome("done", TRUE, 0, "help", 0, <<>>, FALSE, <<>>)
      ELSE IF ~validation.valid THEN Outcome("done", FALSE, 1, validation.error, 0, <<>>, FALSE, <<>>)
      ELSE IF loaded.threw THEN Outcome("done", FALSE, 1, "LOAD_ERROR", 0, <<>>, FALSE, <<>>)
      ELSE IF ~Truthy(task) THEN Outcome("done", FALSE, 1, "NOT_FOUND", taskId, <<>>, FALSE, <<>>)
      ELSE Outcome("done", TRUE, 0, IF wasAlreadyDone THEN "already" ELSE "completed",
                   taskId, <<marked.task>>, TRUE, saveTasks(mutated))

\* runDone(args); loaded is what its call of loadTasks() returns.
runDone(args, loaded) ==
  LET parsed == parseDoneArgs(args)
      validation == validateTaskId(parsed.id)
      taskId == validation.id
      task == findTaskById(loaded.value, taskId)
      wasAlreadyDone == Get(task, "status") = Str("done")
      marked == markTaskDone(task)
      at == FindIndex(loaded.value.items, taskId, 1)
      mutated == Arr([loaded.value.items EXCEPT ![at] = marked.task])
  IN  IF parsed.help THEN Outcome("done", TRUE, 0, "help", 0, <<>>, FALSE, <<>>)
      ELSE IF ~validation.valid THEN Outcome("done", FALSE, 1, validation.error, 0, <<>>, FALSE, <<>>)
      ELSE IF loaded.threw THEN Outcome("done", FALSE, 1, "LOAD_ERROR", 0, <<>>, FALSE, <<>>)
      ELSE IF findTaskByIdRaises(loaded.value, taskId)
        THEN Outcome("done", FALSE, 1, "UNCAUGHT", 0, <<>>, FALSE, <<>>)
      ELSE IF ~Truthy(task) THEN Outcome("done", FALSE, 1, "NOT_FOUND", taskId, <<>>, FALSE, <<>>)
      ELSE IF wasAlreadyDone THEN
        IF TagsMapRaises(task) THEN Outcome("done", FALSE, 1, "UNCAUGHT", 0, <<>>, FALSE, <<>>)
        ELSE Outcome("done", TRUE, 0, "already", taskId, <<task>>, FALSE, <<>>)
      ELSE IF TagsMapRaises(task)
        THEN Outcome("done", FALSE, 1, "UNCAUGHT", 0, <<>>, TRUE, saveTasks(mutated))
      ELSE Outcome("done", TRUE, 0, "completed", taskId, <<marked.task>>, TRUE, saveTasks(mutated))

(***************************************************************************)
(* The show command.                                                       *)
(***************************************************************************)

\* parseShowArgs(args)
parseShowArgs(args) == ParseIdFrom(args, 1, [id |-> Null, help |-> FALSE])

\* runShow(args); loaded is what its call of loadTasks() returns.
runShow(args, loaded) ==
  LET parsed == parseShowArgs(args)
      validation == validateTaskId(parsed.id)
      taskId == validation.id
      task == findTaskById(loaded.value, taskId)
  IN  IF parsed.help THEN Outcome("show", TRUE, 0, "help", 0, <<>>, FALSE, <<>>)
      ELSE IF ~validation.valid THEN Outcome("show", FALSE, 1, validation.error, 0, <<>>, FALSE, <<>>)
      ELSE IF loaded.threw THEN Outcome("show", FALSE, 1, "LOAD_ERROR", 0, <<>>, FALSE, <<>>)
      ELSE IF findTaskByIdRaises(loaded.value, taskId)
        THEN Outcome("show", FALSE, 1, "UNCAUGHT", 0, <<>>, FALSE, <<>>)
      ELSE IF ~Truthy(task) THEN Outcome("show", FALSE, 1, "NOT_FOUND", taskId, <<>>, FALSE, <<>>)
      ELSE IF TagsMapRaises(task) THEN Outcome("show", FALSE, 1, "UNCAUGHT", 0, <<>>, FALSE, <<>>)
      ELSE Outcome("show", TRUE, 0, "details", taskId, <<task>>, FALSE, <<>>)

(***************************************************************************)
(* The list command.                                                       *)
(***************************************************************************)

\* parseListArgs(args): the loop from position i with the result so far.
RECURSIVE ParseListFrom(_, _, _)
ParseListFrom(args, i, acc) ==
  IF i > Len(args) THEN acc
  ELSE LET arg == args[i] IN
    IF arg = "--done" THEN ParseListFrom(args, i + 1, [acc EXCEPT !.done = TRUE])
    ELSE IF arg \in {"--all", "-a"} THEN ParseListFrom(args, i + 1, [acc EXCEPT !.all = TRUE])
    ELSE IF arg \in {"--priority", "-p"} THEN
      IF i + 1 <= Len(args)
        THEN ParseListFrom(args, i + 2, [acc EXCEPT !.priority = Str(ToLowerCase(args[i + 1]))])
        ELSE ParseListFrom(args, i + 1, acc)
    ELSE IF arg \in {"--tag", "-t"} THEN
      IF i + 1 <= Len(args)
        THEN ParseListFrom(args, i + 2, [acc EXCEPT !.tag = Str(Trim(args[i + 1]))])
        ELSE ParseListFrom(args, i + 1, acc)
    ELSE IF arg \in {"--help", "-h"} THEN ParseListFrom(args, i + 1, [acc EXCEPT !.help = TRUE])
    ELSE ParseListFrom(args, i + 1, acc)

parseListArgs(args) ==
  ParseListFrom(args, 1, [done |-> FALSE, all |-> FALSE, priority |-> Null, tag |-> Null, help |-> FALSE])

\* validateFilters(filters): the code of the Error thrown, or "ok".
validateFilters(filters) ==
  IF Truthy(filters.priority) /\ ~IsValidPriority(filters.priority.s)
    THEN "INVALID_PRIORITY" ELSE "ok"

\* The Error validateFilters throws, with its code and the parts of its
\* message, or its return.
validateFiltersCall(filters) ==
  IF validateFilters(filters) = "ok"
    THEN [threw |-> FALSE, code |-> "", message |-> <<>>]
    ELSE [threw |-> TRUE, code |-> validateFilters(filters),
          message |-> <<"Invalid priority \"", filters.priority.s, "\"\n\nValid priorities: ",
                        VALID_PRIORITIES[1], ", ", VALID_PRIORITIES[2], ", ", VALID_PRIORITIES[3]>>]

\* array.includes(v)
Includes(items, v) == \E i \in 1..Len(items) : items[i] = v

\* task.tags.includes(tag): an element of the array, or a part of the string
\* when the tags are one (of the tag texts here none is a part of another)
TagsInclude(tags, tag) ==
  IF tags.type = "string" THEN tag.type = "string" /\ tags.s = tag.s
  ELSE Includes(tags.items, tag)

\* The callback of filterTasks: whether the task is kept.
KeepTask(task, filters) ==
  IF filters.done /\ Get(task, "status") # Str("done") THEN FALSE
  ELSE IF ~filters.done /\ ~filters.all /\ Get(task, "status") = Str("done") THEN FALSE
  ELSE IF Truthy(filters.priority) /\ Get(task, "priority") # filters.priority THEN FALSE
  ELSE IF Truthy(filters.tag)
          /\ (~Truthy(Get(task, "tags")) \/ ~TagsInclude(Get(task, "tags"), filters.tag))
    THEN FALSE
  ELSE TRUE

\* filterTasks(tasks, filters)
filterTasks(items, filters) ==
  LET keep(task) == KeepTask(task, filters) IN SelectSeq(items, keep)

\* filterTasks(tasks, filters) throws: task.status on a null element, or
\* task.tags.includes on tags that are no array and no string, for a task
\* that has passed the status and priority filters
filterTasksRaises(items, filters) ==
  \E k \in 1..Len(items) :
    \/ HasNoProperties(items[k])
    \/ /\ ~(filters.done /\ Get(items[k], "status") # Str("done"))
       /\ ~(~filters.done /\ ~filters.all /\ Get(items[k], "status") = Str("done"))
       /\ ~(Truthy(filters.priority) /\ Get(items[k], "priority") # filters.priority)
       /\ Truthy(filters.tag)
       /\ Truthy(Get(items[k], "tags"))
       /\ Get(items[k], "tags").type \notin {"array", "string"}

\* PRIORITY_ORDER[task.priority] ?? 999
PRIORITY_MISSING == 999
PriorityOrder(task) ==
  LET p == Get(task, "priority") IN
  IF p.type = "string" /\ IsValidPriority(p.s)
    THEN (CHOOSE i \in 1..Len(VALID_PRIORITIES) : VALID_PRIORITIES[i] = p.s) - 1
    ELSE PRIORITY_MISSING

\* Property names that PRIORITY_ORDER, an object literal, inherits from
\* Object.prototype: looking one up yields a function or an object, which is
\* not nullish, so ?? 999 does not apply and the difference is NaN.
InheritedKeys == {"constructor", "toString", "valueOf", "hasOwnProperty", "__proto__"}

PriorityIsNaN(task) ==
  Get(task, "priority").type = "string" /\ Get(task, "priority").s \in InheritedKeys

\* The comparator of sortTasks as Array.prototype.sort takes it: negative,
\* zero or positive; a NaN priorityDiff is returned (NaN !== 0) and sort
\* takes NaN as +0.
CompareTasks(a, b) ==
  IF PriorityIsNaN(a) \/ PriorityIsNaN(b) THEN 0
  ELSE IF PriorityOrder(a) - PriorityOrder(b) # 0 THEN PriorityOrder(a) - PriorityOrder(b)
  ELSE IdOrZero(a) - IdOrZero(b)

\* Array.prototype.sort is stable: each element goes after the last element
\* already placed that does not compare greater than it.
RECURSIVE InsertSorted(_, _, _)
InsertSorted(sorted, x, i) ==
  IF i = 0 THEN <<x>> \o sorted
  ELSE IF CompareTasks(sorted[i], x) <= 0
    THEN SubSeq(sorted, 1, i) \o <<x>> \o SubSeq(sorted, i + 1, Len(sorted))
  ELSE InsertSorted(sorted, x, i - 1)

RECURSIVE SortFrom(_, _, _)
SortFrom(items, i, sorted) ==
  IF i > Len(items) THEN sorted
  ELSE SortFrom(items, i + 1, InsertSorted(sorted, items[i], Len(sorted)))

\* sortTasks(tasks): a new array
sortTasks(items) == SortFrom(items, 1, <<>>)

\* Whether the comparator is consistent on these items (ECMAScript: each
\* element equal to itself, a < b exactly when b > a, and <, = transitive).
ConsistentComparator(items) ==
  \A i, j, k \in 1..Len(items) :
    /\ (CompareTasks(items[i], items[j]) < 0) <=> (CompareTasks(items[j], items[i]) > 0)
    /\ (CompareTasks(items[i], items[j]) = 0 /\ CompareTasks(items[j], items[k]) = 0)
         => CompareTasks(items[i], items[k]) = 0
    /\ (CompareTasks(items[i], items[j]) < 0 /\ CompareTasks(items[j], items[k]) <= 0)
         => CompareTasks(items[i], items[k]) < 0
    /\ (CompareTasks(items[i], items[j]) <= 0 /\ CompareTasks(items[j], items[k]) < 0)
         => CompareTasks(items[i], items[k]) < 0

\* Every rearrangement of the items.
Rearrangements(items) ==
  { [i \in 1..Len(items) |-> items[q[i]]] :
      q \in {r \in [1..Len(items) -> 1..Len(items)] :
               \A i, j \in 1..Len(items) : i # j => r[i] # r[j]} }

\* The arrays [...tasks].sort(comparator) can yield: the stable sorted order
\* when the comparator is consistent; otherwise the order is
\* implementation-defined.
SortOutcomes(items) ==
  IF ConsistentComparator(items) THEN {sortTasks(items)} ELSE Rearrangements(items)

\* Arrays as objects of the heap: the caller's array and a newly made one.
CallerRef == 1
FreshRef == 2

\* A sort in place: tasks.sort(comparator) without the copy.
sortTasksCall_InPlace(items, sorted) ==
  [returns |-> [ref |-> CallerRef, items |-> sorted],
   argument |-> [ref |-> CallerRef, items |-> sorted]]

\* What a call of sortTasks leaves: the array it returns, a copy made by
\* [...tasks] and then sorted, and the caller's array.
sortTasksCall(items, sorted) ==
  [returns |-> [ref |-> FreshRef, items |-> sorted],
   argument |-> [ref |-> CallerRef, items |-> items]]

\* What a call of filterTasks leaves: the array tasks.filter(...) returns,
\* a new one, and the caller's array, which the callback only reads.
filterTasksCall(items, filters) ==
  [returns |-> [ref |-> FreshRef, items |-> filterTasks(items, filters)],
   argument |-> [ref |-> CallerRef, items |-> items]]

\* A runList that saves the view it lists.
runList_Saves(args, loaded) ==
  LET filters == parseListArgs(args)
      check == validateFilters(filters)
      sortedTasks == sortTasks(filterTasks(loaded.value.items, filters))
  IN  IF filters.help THEN Outcome("list", TRUE, 0, "help", 0, <<>>, FALSE, <<>>)
      ELSE IF check # "ok" THEN Outcome("list", FALSE, 1, check, 0, <<>>, FALSE, <<>>)
      ELSE IF loaded.threw THEN Outcome("list", FALSE, 1, "LOAD_ERROR", 0, <<>>, FALSE, <<>>)
      ELSE Outcome("list", TRUE, 0, IF sortedTasks = <<>> THEN "empty" ELSE "listed",
                   0, sortedTasks, TRUE, saveTasks(Arr(sortedTasks)))

\* runList(args); loaded is what its call of loadTasks() returns.
runList(args, loaded) ==
  LET filters == parseListArgs(args)
      check == validateFilters(filters)
      filteredTasks == filterTasks(loaded.value.items, filters)
      sortedTasks == sortTasks(filteredTasks)
  IN  IF filters.help THEN Outcome("list", TRUE, 0, "help", 0, <<>>, FALSE, <<>>)
      ELSE IF check # "ok" THEN Outcome("list", FALSE, 1, check, 0, <<>>, FALSE, <<>>)
      ELSE IF loaded.threw THEN Outcome("list", FALSE, 1, "LOAD_ERROR", 0, <<>>, FALSE, <<>>)
      ELSE IF filterTasksRaises(loaded.value.items, filters)
        THEN Outcome("list", FALSE, 1, "UNCAUGHT", 0, <<>>, FALSE, <<>>)
      ELSE IF \E i \in 1..Len(sortedTasks) : TagsMapRaises(sortedTasks[i])
        THEN Outcome("list", FALSE, 1, "UNCAUGHT", 0, <<>>, FALSE, <<>>)
      ELSE Outcome("list", TRUE, 0, IF sortedTasks = <<>> THEN "empty" ELSE "listed",
                   0, sortedTasks, FALSE, <<>>)

(***************************************************************************)
(* A save that fails.  fs.writeFileSync opens the file with flag 'w', which *)
(* creates or truncates it, and then writes: it throws before the open     *)
(* (permission denied, read-only file system) with the file as it was, or  *)
(* after it (disk full, I/O error) with the file empty or cut short.       *)
(***************************************************************************)
WriteOutcomes == {"written", "refused", "cut"}

\* What is left of the file by a write that failed after the open.
CutTexts == {BlankText, [node |-> "invalid", problem |-> "unexpected end of the stream within a flow collection"]}

\* The outcome of a command whose run with a successful write is o, when
\* its write ends as given: the catch around saveTasks returns the failure.
Saving(o, write, cut) ==
  IF ~o.wrote \/ write = "written" THEN o
  ELSE Outcome(o.result.cmd, FALSE, 1, "SAVE_ERROR", 0, <<>>, write = "cut", cut)

(***************************************************************************)
(* Values the model draws its inputs from.                                 *)
(***************************************************************************)
NoResult == [cmd |-> "none", success |-> TRUE, exitCode |-> 0, kind |-> "none", id |-> 0, shown |-> <<>>]
NoCall == Returned(Undefined)
NoInput == Undefined
NoAdd == [id |-> 0, earlier |-> {}, stored |-> {}]
NoLog == <<>>

\* Every sequence over set S of length at most n.
SeqsUpTo(S, n) == UNION {[1..k -> S] : k \in 0..n}

\* Valid task records: every declared field present and of its declared type.
\* Among them texts and tags that read like another YAML type.
ValidTasks ==
  { MkTask(Num(1), Str("Fix bug"), Str("high"), Arr(<<Str("bug")>>), Str("open"), Str(DateText(1)), Null),
    MkTask(Num(2), Str("Write docs"), Str("medium"), Arr(<<>>), Str("done"), Str(DateText(1)), Str(DateText(2))),
    MkTask(Num(3), Str("null"), Str("low"), Arr(<<Str("3"), Str("api")>>), Str("open"), Str(DateText(2)), Null),
    MkTask(Num(2), Str("-p"), Str("low"), Arr(<<Str("true")>>), Str("done"), Str(DateText(2)), Str(DateText(2))),
    MkTask(Num(7), Str("7"), Str("high"), Arr(<<>>), Str("open"), Str(DateText(1)), Null),
    MkTask(Num(1), Str("Fix bug"), Str("medium"), Arr(<<Str("bug"), Str("bug")>>), Str("done"), Str(DateText(1)), Str(DateText(1))) }

(***************************************************************************)
(* SpecStore: a caller holding an array saves it and loads the file.       *)
(***************************************************************************)
InitStore ==
  /\ fileExists = FALSE
  /\ fileContents = BlankText
  /\ today = 1
  /\ result = NoResult
  /\ assigned = {}
  /\ lastAdd = NoAdd
  /\ doneLog = NoLog
  /\ tasks \in {Arr(q) : q \in SeqsUpTo(ValidTasks, MaxLen)}
  /\ input = NoInput
  /\ ret = NoCall
  /\ op = "init"

CallSaveTasks ==
  /\ fileExists' = TRUE
  /\ fileContents' = saveTasks(tasks)
  /\ ret' = NoCall
  /\ op' = "saveTasks"
  /\ UNCHANGED <<today, result, assigned, lastAdd, doneLog, tasks, input>>

CallLoadTasks ==
  /\ ret' = loadTasks
  /\ op' = "loadTasks"
  /\ UNCHANGED <<fileExists, fileContents, today, result, assigned, lastAdd, doneLog, tasks, input>>

NextStore == CallSaveTasks \/ CallLoadTasks

SpecStore == InitStore /\ [][NextStore]_vars

\* C1: round trip. When the file holds what saveTasks(records) wrote,
\* loadTasks() returns a sequence equal to records, field for field and in
\* the same order.
C1_RoundTrip ==
  (op = "loadTasks" /\ fileExists /\ fileContents = saveTasks(tasks))
    => (~ret.threw /\ ret.value = tasks)

\* C1 witness: a saved and reloaded array of MaxLen records, one open with a
\* null completed date and one with an empty tag list.
C1_Witness ==
  /\ op = "loadTasks" /\ fileExists /\ ret.value = tasks
  /\ Len(tasks.items) = MaxLen
  /\ \E i \in 1..Len(tasks.items) : Get(tasks.items[i], "completed") = Null
  /\ \E i \in 1..Len(tasks.items) : Get(tasks.items[i], "tags") = Arr(<<>>)
  /\ \E i \in 1..Len(tasks.items) : Get(tasks.items[i], "completed").type = "string"

(***************************************************************************)
(* SpecNextId: getNextId on an array whose records have, lack or nullify   *)
(* their id, or on no array at all.                                        *)
(***************************************************************************)
IdTasks ==
  LET t == MkTask(Num(1), Str("Fix bug"), Str("medium"), Arr(<<>>), Str("open"), Str(DateText(1)), Null)
  IN  {With(t, "id", Num(i)) : i \in {0, 1, 2, 3, 5}} \cup {With(t, "id", Null), Without(t, "id")}

InitNextId ==
  /\ fileExists = FALSE
  /\ fileContents = BlankText
  /\ today = 1
  /\ result = NoResult
  /\ assigned = {}
  /\ lastAdd = NoAdd
  /\ doneLog = NoLog
  /\ tasks \in {Arr(q) : q \in SeqsUpTo(IdTasks, MaxLen)} \cup {Null, Undefined}
  /\ input = NoInput
  /\ ret = NoCall
  /\ op = "init"

CallGetNextId ==
  /\ op = "init"
  /\ ret' = Returned(Num(getNextId(tasks)))
  /\ op' = "getNextId"
  /\ UNCHANGED <<fileExists, fileContents, today, result, assigned, lastAdd, doneLog, tasks, input>>

NextNextId == CallGetNextId

SpecNextId == InitNextId /\ [][NextNextId]_vars

\* The id of a record as the claim counts it: its number, 0 when it is
\* missing, null or zero.
C2_IdOf(t) ==
  IF "id" \in Keys(t) /\ t.items["id"].type = "number" THEN t.items["id"].n ELSE 0

\* C2: getNextId(S) is 1 when S is empty, null or undefined; otherwise it is
\* exactly one more than the largest id in S (a missing or falsy id counting
\* as 0), hence strictly greater than every id present.
C2_NextId ==
  op = "getNextId" =>
    LET r == ret.value.n
        S == IF tasks.type = "array" THEN tasks.items ELSE <<>>
    IN  /\ ret.value.type = "number"
        /\ S = <<>> => r = 1
        /\ S # <<>> =>
             /\ \E i \in 1..Len(S) : r = C2_IdOf(S[i]) + 1
             /\ \A i \in 1..Len(S) : r > C2_IdOf(S[i])

\* C2 witness: a call on an array with a gap below its largest id and a
\* record without id.
C2_Witness ==
  /\ op = "getNextId"
  /\ tasks.type = "array" /\ Len(tasks.items) = MaxLen
  /\ \E i \in 1..Len(tasks.items) : "id" \notin Keys(tasks.items[i])
  /\ ret.value.n > Len(tasks.items) + 1

(***************************************************************************)
(* Spec: command invocations, one after another, on a store that starts    *)
(* absent or empty; the calendar day advances between invocations.         *)
(***************************************************************************)
AddArgLists ==
  { <<>>, <<"-h">>, <<"  ">>,
    <<"Fix bug">>,
    <<"Fix bug", "-p", "urgent">>,
    <<"Write docs", "-p", "HIGH", "-t", " api ">> }

DoneArgLists == {<<>>, <<"abc">>} \cup {<<IntText(i)>> : i \in 1..(MaxTasks + 1)}

ShowArgLists == {<<"-h">>, <<"1.5">>, <<"1">>, <<"-x", IntText(MaxTasks + 1), "1">>}

ListArgLists ==
  { <<>>, <<"--done">>, <<"-a", "-p", "HIGH">>, <<"-p", "urgent">>, <<"-t", " api ">> }

\* The records a store with this text holds (none when it does not load).
StoredIn(contents) ==
  LET loaded == LoadFrom(TRUE, contents)
  IN  IF loaded.threw THEN <<>> ELSE loaded.value.items

\* The records now in the store.
StoredTasks ==
  LET loaded == loadTasks
  IN  IF loaded.threw THEN <<>> ELSE loaded.value.items

\* The store is absent, or an empty file, or a file saved with no records.
Init ==
  /\ \/ fileExists = FALSE /\ fileContents = BlankText
     \/ fileExists = TRUE /\ fileContents \in {BlankText, saveTasks(Arr(<<>>))}
  /\ today = 1
  /\ result = NoResult
  /\ assigned = {}
  /\ lastAdd = NoAdd
  /\ doneLog = NoLog
  /\ tasks = Arr(<<>>)
  /\ input = NoInput
  /\ ret = NoCall
  /\ op = "init"

\* The ids of the records of an array.
IdsOf(items) == {IdOrZero(items[i]) : i \in 1..Len(items)}

\* The log after the store is seen to hold items: a done record whose id is
\* not yet in the log enters it with its completed date.
Observe(log, items) ==
  LET seen == {i \in 1..Len(items) :
                 Get(items[i], "status") = Str("done") /\ IdOrZero(items[i]) \notin DOMAIN log}
  IN  [id \in DOMAIN log \cup {IdOrZero(items[i]) : i \in seen} |->
         IF id \in DOMAIN log THEN log[id]
         ELSE Get(items[CHOOSE i \in seen : IdOrZero(items[i]) = id], "completed")]

\* What an invocation leaves behind; loaded is what its loadTasks() returned.
Invoke(o, loaded) ==
  /\ result' = o.result
  /\ fileExists' = (fileExists \/ o.wrote)
  /\ fileContents' = IF o.wrote THEN o.contents ELSE fileContents
  /\ assigned' = IF o.result.kind = "added" THEN assigned \cup {o.result.id} ELSE assigned
  /\ lastAdd' = IF o.result.kind = "added"
                  THEN [id |-> o.result.id, earlier |-> assigned,
                        stored |-> IdsOf(loaded.value.items)]
                  ELSE lastAdd
  /\ \E after \in {IF o.wrote THEN StoredIn(o.contents) ELSE <<>>} :
       doneLog' = IF o.wrote THEN Observe(doneLog, after) ELSE doneLog
  /\ UNCHANGED <<today, tasks, input, ret, op>>

RunAdd ==
  \E loaded \in {loadTasks} : \E args \in AddArgLists : \E o \in {runAdd(args, loaded)} :
    /\ o.wrote => (Len(loaded.value.items) < MaxTasks /\ o.result.id <= MaxNewId)
    /\ Invoke(o, loaded)

RunDone ==
  \E loaded \in {loadTasks} : \E args \in DoneArgLists : \E o \in {runDone(args, loaded)} :
    Invoke(o, loaded)

RunList ==
  \E loaded \in {loadTasks} : \E args \in ListArgLists : \E o \in {runList(args, loaded)} :
    Invoke(o, loaded)

RunShow ==
  \E loaded \in {loadTasks} : \E args \in ShowArgLists : \E o \in {runShow(args, loaded)} :
    Invoke(o, loaded)

\* Midnight passes.
Tick ==
  /\ today < MaxDay
  /\ today' = today + 1
  /\ UNCHANGED <<fileExists, fileContents, result, assigned, lastAdd, doneLog, tasks, input, ret, op>>

Next == RunAdd \/ RunDone \/ RunList \/ RunShow \/ Tick

Spec == Init /\ [][Next]_vars

\* The id, status and completed date of a record as the file holds them.
IdIn(t) == Get(t, "id")
StatusIn(t) == Get(t, "status")
CompletedIn(t) == Get(t, "completed")

C7_DoneStaysDone ==
  \A S \in {StoredTasks} :
  \A id \in DOMAIN doneLog :
    \E i \in 1..Len(S) :
      /\ IdIn(S[i]) = Num(id)
      /\ StatusIn(S[i]) = Str("done")
      /\ CompletedIn(S[i]) = doneLog[id]

\* C7 witness: a done command ran on a day after the one on which the record
\* it names was completed, and the record still carries the earlier date.
C7_Witness ==
  /\ result.cmd = "done" /\ result.kind = "already"
  /\ today > 1
  /\ \E i \in 1..Len(StoredTasks) :
       /\ IdIn(StoredTasks[i]) = Num(result.id)
       /\ StatusIn(StoredTasks[i]) = Str("done")
       /\ CompletedIn(StoredTasks[i]) = Str(DateText(1))

(***************************************************************************)
(* SpecRemove: add commands interleaved with removals.  A removal is a     *)
(* rewrite of the whole store that omits one record.                       *)
(***************************************************************************)

\* The array without its item at position i.
Omit(items, i) == [k \in 1..(Len(items) - 1) |-> IF k < i THEN items[k] ELSE items[k + 1]]

Remove ==
  \E loaded \in {loadTasks} : \E i \in 1..Len(loaded.value.items) :
    /\ fileExists' = TRUE
    /\ fileContents' = saveTasks(Arr(Omit(loaded.value.items, i)))
    /\ UNCHANGED <<today, result, assigned, lastAdd, doneLog, tasks, input, ret, op>>

NextRemove == RunAdd \/ Remove

SpecRemove == Init /\ [][NextRemove]_vars

\* C3 as stated: the id that an add assigns is different from every id that
\* any earlier add assigned, even when the record that held that id has
\* since been removed.
C3_NeverReused == lastAdd.id \notin lastAdd.earlier

\* C3, amended: the id that an add assigns is strictly greater than every id
\* in the store when the add runs, so it differs from the id of every record
\* still stored and from every removed id below the largest stored one; only
\* an id larger than all stored ids can be assigned again.
C3_AboveStored == \A x \in lastAdd.stored : lastAdd.id > x

\* C3 witness: an add that ran after a removal, on a store that still held a
\* record: an id assigned earlier was no longer stored.
C3_Witness ==
  /\ lastAdd.id > 0
  /\ lastAdd.stored # {}
  /\ lastAdd.earlier \ lastAdd.stored # {}
  /\ lastAdd.id \notin lastAdd.earlier

(***************************************************************************)
(* SpecMark: a caller holding a record calls markTaskDone on it, again and *)
(* again, while the calendar day advances.                                 *)
(***************************************************************************)

\* Records with every status and completed date, or without the field.
MarkTasks ==
  LET base == { MkTask(Num(i), Str("Fix bug"), Str(p), Arr(<<Str("bug")>>), Str("open"), Str(DateText(1)), Null)
                  : i \in 1..2, p \in {"high", "low"} }
      statuses == {Str("open"), Str("done"), Str("pending")}
      dates == {Null} \cup {Str(DateText(d)) : d \in 1..MaxDay}
  IN  UNION { {With(With(t, "status", st), "completed", c) : st \in statuses, c \in dates}
              \cup {Without(With(t, "completed", c), "status") : c \in dates}
              \cup {Without(With(t, "status", st), "completed") : st \in statuses}
                : t \in base }

InitMark ==
  /\ fileExists = FALSE
  /\ fileContents = BlankText
  /\ today = 1
  /\ result = NoResult
  /\ assigned = {}
  /\ lastAdd = NoAdd
  /\ doneLog = NoLog
  /\ tasks \in MarkTasks
  /\ input = NoInput
  /\ ret = NoCall
  /\ op = "init"

CallMarkTaskDone ==
  \E marked \in {markTaskDone(tasks)} :
    /\ input' = [task |-> tasks, date |-> getTodayDate]
    /\ tasks' = marked.task
    /\ ret' = Returned(Bool(marked.returns))
    /\ op' = "markTaskDone"
    /\ UNCHANGED <<fileExists, fileContents, today, result, assigned, lastAdd, doneLog>>

NextMark == CallMarkTaskDone \/ Tick

SpecMark == InitMark /\ [][NextMark]_vars

\* C6: idempotent completion. On a record with status open, markTaskDone
\* returns true and sets status done and completed to the day of the call,
\* changing nothing else; on a record that is done (so also on a second call)
\* it returns false and leaves every field, completed among them, as it was.
C6_Idempotent ==
  op = "markTaskDone" =>
    /\ StatusIn(input.task) = Str("open") =>
          /\ ret.value = Bool(TRUE)
          /\ StatusIn(tasks) = Str("done")
          /\ CompletedIn(tasks) = input.date
          /\ \A f \in Keys(input.task) \ {"status", "completed"} : Get(tasks, f) = Get(input.task, f)
    /\ StatusIn(input.task) = Str("done") =>
          /\ ret.value = Bool(FALSE)
          /\ tasks = input.task

\* C6 witness: a call made on a later day than the one the record was
\* completed on returned false and the record keeps the earlier date.
C6_Witness ==
  /\ op = "markTaskDone"
  /\ ret.value = Bool(FALSE)
  /\ input.date = Str(DateText(MaxDay))
  /\ StatusIn(tasks) = Str("done")
  /\ CompletedIn(tasks) = Str(DateText(1))

(***************************************************************************)
(* SpecFilter: filterTasks on an array of records, well-formed or edited   *)
(* by hand, under every combination of the filter's fields.                *)
(***************************************************************************)
FilterTasks ==
  { MkTask(Num(1), Str("Fix bug"), Str("high"), Arr(<<Str("bug")>>), Str("open"), Str(DateText(1)), Null),
    MkTask(Num(2), Str("Write docs"), Str("low"), Arr(<<>>), Str("open"), Str(DateText(1)), Null),
    MkTask(Num(3), Str("Fix bug"), Str("high"), Arr(<<Str("api"), Str("bug")>>), Str("done"), Str(DateText(1)), Str(DateText(1))),
    MkTask(Num(4), Str("Write docs"), Str("medium"), Arr(<<Str("api")>>), Str("done"), Str(DateText(1)), Str(DateText(1))),
    MkTask(Num(5), Str("Fix bug"), Str("high"), Arr(<<Str("bug")>>), Str("archived"), Str(DateText(1)), Null),
    Without(MkTask(Num(6), Str("Fix bug"), Str("low"), Arr(<<Str("bug")>>), Str("open"), Str(DateText(1)), Null), "status"),
    Without(MkTask(Num(7), Str("Fix bug"), Str("high"), Arr(<<>>), Str("open"), Str(DateText(1)), Null), "tags"),
    MkTask(Num(8), Str("Fix bug"), Str("high"), Null, Str("done"), Str(DateText(1)), Str(DateText(1))),
    Without(MkTask(Num(9), Str("Write docs"), Str("high"), Arr(<<Str("bug")>>), Str("open"), Str(DateText(1)), Null), "priority") }

FilterSpecs ==
  [done : BOOLEAN, all : BOOLEAN, priority : {Null, Str("high")}, tag : {Null, Str("bug")}, help : {FALSE}]

InitFilter ==
  /\ fileExists = FALSE
  /\ fileContents = BlankText
  /\ today = 1
  /\ result = NoResult
  /\ assigned = {}
  /\ lastAdd = NoAdd
  /\ doneLog = NoLog
  /\ tasks \in {Arr(q) : q \in SeqsUpTo(FilterTasks, MaxLen)}
  /\ input = NoInput
  /\ ret = NoCall
  /\ op = "init"

CallFilterTasks ==
  \E filters \in FilterSpecs :
    /\ input' = filters
    /\ ret' = Returned(Arr(filterTasks(tasks.items, filters)))
    /\ op' = "filterTasks"
    /\ UNCHANGED <<fileExists, fileContents, today, result, assigned, lastAdd, doneLog, tasks>>

NextFilter == CallFilterTasks

SpecFilter == InitFilter /\ [][NextFilter]_vars

\* The criteria as the specification states them.  Status policy: all = true
\* lets every record pass whatever the done flag; otherwise done = true
\* asks for status done and the default asks for status open.
C8_StatusOk(t, f) ==
  IF f.all THEN TRUE
  ELSE IF f.done THEN StatusIn(t) = Str("done")
  ELSE StatusIn(t) = Str("open")

C8_PriorityOk(t, f) == f.priority # Null => Get(t, "priority") = f.priority

C8_TagOk(t, f) ==
  f.tag # Null => (Get(t, "tags").type = "array" /\ Includes(Get(t, "tags").items, f.tag))

\* C8: filterTasks(records, spec) returns exactly the records that satisfy
\* every active criterion at once (status policy, priority equality when a
\* priority is set, tag membership when a tag is set): none that matches is
\* omitted, none that does not match is included, and a record with an empty
\* or missing tag list never matches a set tag filter.
C8_ExactlyMatching ==
  op = "filterTasks" =>
    \A i \in 1..Len(tasks.items) :
      Includes(ret.value.items, tasks.items[i])
        <=> (/\ C8_StatusOk(tasks.items[i], input)
             /\ C8_PriorityOk(tasks.items[i], input)
             /\ C8_TagOk(tasks.items[i], input))

\* C9: default status policy. With done = false and all = false, filterTasks
\* includes only records whose status is exactly open; a record whose status
\* is done, missing or an unrecognised string is excluded.
C9_DefaultOnlyOpen ==
  (op = "filterTasks" /\ ~input.done /\ ~input.all) =>
    \A i \in 1..Len(ret.value.items) : StatusIn(ret.value.items[i]) = Str("open")

\* C10: with all = true, filterTasks applies no status filtering: open and
\* done records that meet the priority and tag criteria are all returned,
\* whatever the done flag.
C10_AllNoStatusFilter ==
  (op = "filterTasks" /\ input.all) =>
    \A i \in 1..Len(tasks.items) :
      (/\ StatusIn(tasks.items[i]) \in {Str("open"), Str("done")}
       /\ C8_PriorityOk(tasks.items[i], input)
       /\ C8_TagOk(tasks.items[i], input))
        => Includes(ret.value.items, tasks.items[i])

(***************************************************************************)
(* SpecSort: sortTasks on an array of records, among them records that     *)
(* agree on priority and id and records whose priority is missing or is    *)
(* no priority the program knows.                                          *)
(***************************************************************************)
SortTasks ==
  LET t(i, p, txt) == MkTask(Num(i), Str(txt), Str(p), Arr(<<>>), Str("open"), Str(DateText(1)), Null)
  IN  { t(1, "low", "Fix bug"), t(2, "high", "Fix bug"), t(3, "medium", "Fix bug"),
        t(2, "high", "Write docs"), t(1, "urgent", "Fix bug"),
        Without(t(2, "low", "Fix bug"), "priority"),
        t(3, "constructor", "Fix bug") }

InitSort ==
  /\ fileExists = FALSE
  /\ fileContents = BlankText
  /\ today = 1
  /\ result = NoResult
  /\ assigned = {}
  /\ lastAdd = NoAdd
  /\ doneLog = NoLog
  /\ tasks \in {[ref |-> CallerRef, items |-> q] : q \in SeqsUpTo(SortTasks, MaxLen)}
  /\ input = NoInput
  /\ ret = NoCall
  /\ op = "init"

CallSortTasks ==
  /\ op = "init"
  /\ \E sorted \in SortOutcomes(tasks.items) :
       \E call \in {sortTasksCall(tasks.items, sorted)} :
         /\ input' = tasks
         /\ tasks' = call.argument
         /\ ret' = Returned(call.returns)
         /\ op' = "sortTasks"
  /\ UNCHANGED <<fileExists, fileContents, today, result, assigned, lastAdd, doneLog>>

NextSort == CallSortTasks

SpecSort == InitSort /\ [][NextSort]_vars

\* The rank the order is stated in: high 0, medium 1, low 2, and any other
\* or missing priority after all three.
C11_Rank(t) ==
  CASE Get(t, "priority") = Str("high") -> 0
    [] Get(t, "priority") = Str("medium") -> 1
    [] Get(t, "priority") = Str("low") -> 2
    [] OTHER -> 3

\* C11: sortTasks returns a permutation of its input, ascending by priority
\* rank (an unrecognised or missing priority after high, medium and low),
\* then ascending by id within equal rank; records equal on both keys keep
\* their input order.
C11_SortedStable ==
  op = "sortTasks" =>
    \E q \in [1..Len(input.items) -> 1..Len(input.items)] :
      /\ \A i, j \in 1..Len(input.items) : i # j => q[i] # q[j]
      /\ Len(ret.value.items) = Len(input.items)
      /\ \A i \in 1..Len(input.items) : ret.value.items[i] = input.items[q[i]]
      /\ \A i, j \in 1..Len(input.items) :
           i < j =>
             LET a == ret.value.items[i]
                 b == ret.value.items[j]
             IN  \/ C11_Rank(a) < C11_Rank(b)
                 \/ C11_Rank(a) = C11_Rank(b) /\ Get(a, "id").n < Get(b, "id").n
                 \/ C11_Rank(a) = C11_Rank(b) /\ Get(a, "id").n = Get(b, "id").n /\ q[i] < q[j]

\* C12: sortTasks does not mutate its argument: after the call the caller's
\* array has the same elements in the same order as before, the result is
\* another array, and an empty input yields an empty output.
C12_InputUntouched ==
  op = "sortTasks" =>
    /\ tasks = input
    /\ ret.value.ref # tasks.ref
    /\ input.items = <<>> => ret.value.items = <<>>

\* C12 witness: a call that returned its records in another order than the
\* caller's array, which still has its own.
C12_Witness ==
  /\ op = "sortTasks"
  /\ Len(tasks.items) = MaxLen
  /\ ret.value.items # tasks.items
  /\ tasks = input

(***************************************************************************)
(* SpecFile: the file as someone may have left it (absent, blank, written  *)
(* by hand in any shape, or not YAML at all); a caller loads it, and saves *)
(* arrays or nothing at all over it.                                       *)
(***************************************************************************)

\* The records the files and the saved arrays are made of.
FileTasks ==
  {t \in ValidTasks : Get(t, "id") = Num(2) \/ (Get(t, "id") = Num(1) /\ Get(t, "status") = Str("open"))}

\* Documents in which the tasks field is missing, null, a scalar, a mapping
\* or a sequence, with or without a version; documents that are no mapping.
HandWrittenTexts ==
  LET versions == {Scalar("plain", "1"), Scalar("quoted", "abc")}
      taskNodes == { Scalar("plain", "null"), Scalar("plain", ""), Scalar("plain", "Fix bug"),
                     Scalar("plain", "7"), Scalar("plain", "true"), Scalar("quoted", ""),
                     yamlDump(CHOOSE t \in FileTasks : TRUE) }
                   \cup {yamlDump(Arr(q)) : q \in SeqsUpTo(FileTasks, MaxLen)}
  IN  {BlankText, WhitespaceText} \cup InvalidTexts
      \cup {Scalar("plain", "null"), Scalar("plain", "0"), Scalar("plain", "Fix bug"),
            Scalar("plain", "true"), yamlDump(Arr(<<>>)),
            yamlDump(Arr(<<CHOOSE t \in FileTasks : TRUE>>))}
      \cup {[node |-> "map", entries |-> [k \in {"version"} |-> v]] : v \in versions}
      \cup {[node |-> "map", entries |-> [k \in {"tasks"} |-> n]] : n \in taskNodes}
      \cup {[node |-> "map", entries |-> [k \in {"version", "tasks"} |-> IF k = "version" THEN v ELSE n]]
              : v \in versions, n \in taskNodes}

\* What a caller may hand to saveTasks.
SaveArguments == {Null, Undefined} \cup {Arr(q) : q \in SeqsUpTo(FileTasks, MaxLen)}

InitFile ==
  /\ \/ fileExists = FALSE /\ fileContents = BlankText
     \/ fileExists = TRUE /\ fileContents \in HandWrittenTexts
  /\ today = 1
  /\ result = NoResult
  /\ assigned = {}
  /\ lastAdd = NoAdd
  /\ doneLog = NoLog
  /\ tasks = Arr(<<>>)
  /\ input = NoInput
  /\ ret = NoCall
  /\ op = "init"

\* saveTasks(given) for whatever the caller gives.
SaveGiven ==
  \E given \in SaveArguments :
    /\ fileExists' = TRUE
    /\ fileContents' = saveTasks(given)
    /\ input' = [saved |-> given, existed |-> fileExists,
                 replaced |-> IF fileExists THEN StoredIn(fileContents) ELSE <<>>]
    /\ ret' = NoCall
    /\ op' = "saveTasks"
    /\ UNCHANGED <<today, result, assigned, lastAdd, doneLog, tasks>>

NextFile == CallLoadTasks \/ SaveGiven

SpecFile == InitFile /\ [][NextFile]_vars

\* The last saveTasks was given one of these arguments.
C15_SavedOneOf(arguments) == "saved" \in DOMAIN input /\ input.saved \in arguments

\* The node under the tasks key of the file's document; none when the
\* document is no mapping or has no such key.
C13_HasTasksSequence ==
  /\ fileContents.node = "map"
  /\ "tasks" \in DOMAIN fileContents.entries
  /\ fileContents.entries["tasks"].node = "seq"

\* C13: lenient load. loadTasks returns an empty sequence and raises no error
\* whenever the file is absent, is empty or whitespace-only, or parses to a
\* document whose tasks field is missing, null, or not a sequence.
C13_LenientLoad ==
  (/\ op = "loadTasks"
   /\ \/ ~fileExists
      \/ fileContents.node = "blank"
      \/ fileContents.node # "invalid" /\ ~C13_HasTasksSequence)
    => ret = Returned(Arr(<<>>))

\* C13 witness: a load of a file whose document has a version and a tasks
\* field that is a scalar.
C13_Witness ==
  /\ op = "loadTasks" /\ fileExists
  /\ fileContents.node = "map"
  /\ DOMAIN fileContents.entries = {"version", "tasks"}
  /\ fileContents.entries["tasks"].node = "scalar"
  /\ fileContents.entries["tasks"].txt = "Fix bug"
  /\ ret = Returned(Arr(<<>>))

(***************************************************************************)
(* SpecInvalid: the store is a file that is not YAML; the commands run and *)
(* a caller loads.                                                         *)
(***************************************************************************)

InitInvalid ==
  /\ fileExists = TRUE
  /\ fileContents \in InvalidTexts
  /\ today = 1
  /\ result = NoResult
  /\ assigned = {}
  /\ lastAdd = NoAdd
  /\ doneLog = NoLog
  /\ tasks = Arr(<<>>)
  /\ input = NoInput
  /\ ret = NoCall
  /\ op = "init"

NextInvalid == CallLoadTasks \/ RunAdd \/ RunDone \/ RunList \/ RunShow \/ Tick

SpecInvalid == InitInvalid /\ [][NextInvalid]_vars

\* C14: with a file that exists, is not blank and is not valid YAML,
\* loadTasks throws an error whose message names the file and embeds the
\* parser's message, and returns nothing; every command that gets to loading
\* returns exit code 1 (only a help request, which does not load, returns
\* 0), and the file is never written.
C14_InvalidYaml ==
  /\ fileExists /\ fileContents \in InvalidTexts
  /\ op = "loadTasks" =>
       /\ ret.threw
       /\ ret.value = Undefined
       /\ ret.message = <<"Invalid .taskflow.yaml: ", fileContents.problem>>
  /\ result.cmd \in {"add", "done", "list", "show"} =>
       \/ result.kind = "help" /\ result.exitCode = 0
       \/ ~result.success /\ result.exitCode = 1 /\ result.shown = <<>>

\* C14 witness: an add whose arguments are valid has failed at the load,
\* and a caller's load has thrown.
C14_Witness ==
  /\ result.cmd = "add" /\ result.kind = "LOAD_ERROR" /\ result.exitCode = 1
  /\ op = "loadTasks" /\ ret.threw

\* C15: saveTasks given an empty sequence, null or nothing does not fail: it
\* writes a document with version 1 and an empty tasks sequence, so that a
\* following loadTasks returns the empty sequence.
C15_SaveNothing ==
  C15_SavedOneOf({Arr(<<>>), Null, Undefined}) =>
    /\ fileExists
    /\ fileContents.node = "map"
    /\ DOMAIN fileContents.entries = {"version", "tasks"}
    /\ fileContents.entries["version"] = Scalar("plain", "1")
    /\ fileContents.entries["tasks"].node = "seq"
    /\ fileContents.entries["tasks"].items = <<>>
    /\ op = "loadTasks" => ret = Returned(Arr(<<>>))

\* C15 witness: a load after saveTasks(null) over a file that held a record.
C15_Witness ==
  /\ C15_SavedOneOf({Null}) /\ input.replaced # <<>>
  /\ op = "loadTasks" /\ ret = Returned(Arr(<<>>))

\* C16: saveTasks replaces the store wholesale. After a save of A and then
\* a save of B a load returns exactly B, nothing of A remaining; a save
\* with the file absent creates it.
C16_Wholesale ==
  "saved" \in DOMAIN input =>
    /\ fileExists
    /\ (op = "loadTasks" /\ input.saved.type = "array") => ret = Returned(input.saved)

\* C16 witness: a load after a save of one record over a store that held two
\* others.
C16_Witness ==
  /\ op = "loadTasks" /\ "saved" \in DOMAIN input
  /\ input.existed /\ Len(input.replaced) = 2
  /\ input.saved.type = "array" /\ Len(input.saved.items) = 1
  /\ \A i \in 1..2 : input.replaced[i] # input.saved.items[1]
  /\ ret = Returned(input.saved)

\* C16 witness of creation: a save with no file there has made one.
C16_Created == op = "saveTasks" /\ ~input.existed /\ fileExists

(***************************************************************************)
(* SpecCreate: a caller constructs a record from a text and overrides, and *)
(* afterwards pushes onto the tags array it passed.                        *)
(***************************************************************************)

\* A createTask whose record holds the caller's tags array itself.
createTaskCall_Shared(text, options) ==
  [returns |-> createTask(text, options),
   tagsRef |-> IF Get(options, "tags").type = "array" THEN CallerRef ELSE FreshRef]

\* What a call of createTask leaves: what it returns or throws, and the
\* array the record's tags are, one of its own.
createTaskCall(text, options) ==
  [returns |-> createTask(text, options), tagsRef |-> FreshRef]

CreateTexts ==
  { Str("Fix bug"), Str(" api "), Str(""), Str("  "), Null, Undefined, Num(7), Bool(TRUE), Arr(<<>>) }

\* The overrides a caller may give: any of the six fields, or none.
CreateOverrides ==
  LET values == [f \in FieldNames \ {"text"} |->
                   CASE f = "id" -> {Num(5)}
                     [] f = "priority" -> {Str("high")}
                     [] f = "tags" -> {Arr(<<>>), Arr(<<Str("bug"), Str("urgent")>>)}
                     [] f = "status" -> {Str("done")}
                     [] f = "created" -> {Str("2025-01-01")}
                     [] f = "completed" -> {Str(DateText(2))}]
  IN  UNION { {Obj(o) : o \in {g \in [given -> UNION {values[f] : f \in given}] :
                                    \A f \in given : g[f] \in values[f]}}
              : given \in SUBSET (FieldNames \ {"text"}) }

InitCreate ==
  /\ fileExists = FALSE
  /\ fileContents = BlankText
  /\ today \in 1..MaxDay
  /\ result = NoResult
  /\ assigned = {}
  /\ lastAdd = NoAdd
  /\ doneLog = NoLog
  /\ \E text \in CreateTexts, options \in CreateOverrides :
       /\ input = [text |-> text, options |-> options]
       /\ tasks = [ref |-> CallerRef, array |-> Get(options, "tags"), held |-> 0]
  /\ ret = NoCall
  /\ op = "init"

\* createTask(text, options)
CallCreateTask ==
  /\ op = "init"
  /\ \E call \in {createTaskCall(input.text, input.options)} :
       /\ ret' = call.returns
       /\ tasks' = [tasks EXCEPT !.held = IF call.returns.threw THEN 0 ELSE call.tagsRef]
  /\ op' = "createTask"
  /\ UNCHANGED <<fileExists, fileContents, today, result, assigned, lastAdd, doneLog, input>>

\* originalTags.push('modified') by the caller after the call; a record that
\* holds that very array shows the new element too.
PushTag ==
  /\ op = "createTask"
  /\ tasks.array.type = "array"
  /\ \E pushed \in {Arr(Append(tasks.array.items, Str("modified")))} :
       /\ tasks' = [tasks EXCEPT !.array = pushed]
       /\ ret' = IF tasks.held = CallerRef
                   THEN Returned(With(ret.value, "tags", pushed)) ELSE ret
  /\ op' = "push"
  /\ UNCHANGED <<fileExists, fileContents, today, result, assigned, lastAdd, doneLog, input>>

NextCreate == CallCreateTask \/ PushTag

SpecCreate == InitCreate /\ [][NextCreate]_vars

\* The field of the record: the override when one is given, else the default.
C17_Expected(f, default) ==
  IF f \in Keys(input.options) THEN input.options.items[f] ELSE default

\* The text is a string with something in it besides blanks.
C17_ValidText == input.text.type = "string" /\ input.text.s \notin {"", "  "}

C19_Missing == <<"Task text is required">>
C19_Empty == <<"Task text is required (empty)">>
C19_WrongType == <<"Task text must be a string">>

PriorityArguments == {"high", "medium", "low", "HIGH", "urgent", "constructor", ""}

ListCalls ==
  {<<>>, <<"-p">>, <<"-h", "-p", "urgent">>, <<"--done">>}
  \cup {<<"-p", v>> : v \in PriorityArguments}
  \cup {<<"-a", "--priority", v>> : v \in PriorityArguments}

InitList ==
  /\ \/ fileExists = FALSE /\ fileContents = BlankText
     \/ /\ fileExists = TRUE
        /\ fileContents \in InvalidTexts \cup {saveTasks(Arr(q)) : q \in SeqsUpTo(FileTasks, MaxLen)}
  /\ today = 1
  /\ result = NoResult
  /\ assigned = {}
  /\ lastAdd = NoAdd
  /\ doneLog = NoLog
  /\ tasks = Arr(<<>>)
  /\ input \in ListCalls
  /\ ret = NoCall
  /\ op = "init"

\* validateFilters(parseListArgs(args))
CallValidateFilters ==
  /\ op = "init"
  /\ ret' = validateFiltersCall(parseListArgs(input))
  /\ op' = "validateFilters"
  /\ UNCHANGED <<fileExists, fileContents, today, result, assigned, lastAdd, doneLog, tasks, input>>

\* runList(args)
RunListGiven ==
  /\ op = "init"
  /\ \E o \in {runList(input, loadTasks)} :
       /\ result' = o.result
       /\ fileExists' = (fileExists \/ o.wrote)
       /\ fileContents' = IF o.wrote THEN o.contents ELSE fileContents
  /\ op' = "runList"
  /\ UNCHANGED <<today, assigned, lastAdd, doneLog, tasks, input, ret>>

NextList == CallValidateFilters \/ RunListGiven

SpecList == InitList /\ [][NextList]_vars

\* The priority the arguments ask for lies outside {high, medium, low}.
C20_Outside ==
  /\ parseListArgs(input).priority # Null
  /\ parseListArgs(input).priority.s \notin {"high", "medium", "low"}

\* C20: a priority filter value outside {high, medium, low} is rejected
\* before any record is loaded or filtered: validateFilters throws an error
\* of code INVALID_PRIORITY whose message names the value and the three
\* permitted ones, and runList (not asked for help) returns exit code 1 and
\* lists no task, whatever the store; with no priority or one of the three,
\* validateFilters throws nothing.
C20_PriorityRejected ==
  /\ (op = "validateFilters" /\ C20_Outside) =>
       /\ ret.threw /\ ret.code = "INVALID_PRIORITY"
       /\ \A part \in {parseListArgs(input).priority.s, "high", "medium", "low"} :
            \E i \in 1..Len(ret.message) : ret.message[i] = part
  /\ (op = "validateFilters" /\ ~C20_Outside) => ~ret.threw
  /\ (op = "runList" /\ C20_Outside /\ ~parseListArgs(input).help) =>
       /\ ~result.success /\ result.exitCode = 1
       /\ result.kind = "INVALID_PRIORITY"
       /\ result.shown = <<>>

\* C20 restricted to the values that are not the empty string.
C20_NonEmptyRejected == parseListArgs(input).priority # Str("") => C20_PriorityRejected

\* A list with -p urgent over a store that does not load has failed at the
\* validation, not at the load.
C20_Witness ==
  /\ op = "runList" /\ input = <<"-p", "urgent">> /\ fileContents \in InvalidTexts
  /\ result.kind = "INVALID_PRIORITY" /\ result.exitCode = 1

(***************************************************************************)
(* SpecOnce: one command is run on a store as someone may have edited it:  *)
(* absent, not YAML, or holding records, some of them out of shape.        *)
(***************************************************************************)

\* Records of a hand-edited store: two as add and done write them, one with
\* a priority and a status the program does not know and the id of another,
\* one without status and tags, one without id, one whose tags are a word
\* and not a list (tags: bug), and an entry left empty (- ).
EditedTasks ==
  { MkTask(Num(1), Str("Fix bug"), Str("high"), Arr(<<Str("bug")>>), Str("open"), Str(DateText(1)), Null),
    MkTask(Num(2), Str("Write docs"), Str("medium"), Arr(<<>>), Str("done"), Str(DateText(1)), Str(DateText(2))),
    MkTask(Num(1), Str("-p"), Str("urgent"), Arr(<<Str("api")>>), Str("archived"), Str(DateText(1)), Null),
    Without(Without(MkTask(Num(3), Str("7"), Str("low"), Arr(<<>>), Str("open"), Str(DateText(2)), Null),
                    "status"), "tags"),
    Without(MkTask(Null, Str("Fix bug"), Str("constructor"), Arr(<<>>), Str("open"), Str(DateText(1)), Null), "id"),
    MkTask(Num(2), Str("Write docs"), Str("low"), Str("bug"), Str("open"), Str(DateText(1)), Null),
    Null }

EditedStores == {saveTasks(Arr(q)) : q \in SeqsUpTo(EditedTasks, MaxLen)}

InitOnce ==
  /\ \/ fileExists = FALSE /\ fileContents = BlankText
     \/ fileExists = TRUE /\ fileContents \in InvalidTexts \cup EditedStores
  /\ today \in {1, MaxDay}
  /\ result = NoResult
  /\ assigned = {}
  /\ lastAdd = NoAdd
  /\ doneLog = NoLog
  /\ tasks = Arr(<<>>)
  /\ input = NoInput
  /\ ret = NoCall
  /\ op = "init"

\* One invocation with outcome o: its result, what it wrote, and for the
\* record its arguments and the store it found.
Once(cmd, args, o) ==
  /\ op = "init"
  /\ op' = cmd
  /\ result' = o.result
  /\ fileExists' = (fileExists \/ o.wrote)
  /\ fileContents' = IF o.wrote THEN o.contents ELSE fileContents
  /\ input' = [args |-> args, existed |-> fileExists, before |-> fileContents, wrote |-> o.wrote]
  /\ UNCHANGED <<today, assigned, lastAdd, doneLog, tasks, ret>>

ListOnce ==
  \E loaded \in {loadTasks} : \E args \in ListArgLists : \E o \in {runList(args, loaded)} :
    Once("runList", args, o)

ShowOnce ==
  \E loaded \in {loadTasks} : \E args \in ShowArgLists : \E o \in {runShow(args, loaded)} :
    Once("runShow", args, o)

\* The argument lists of add, with priorities in other cases, an empty
\* one, an inherited property name and none after the flag.
AddCalls ==
  AddArgLists \cup {<<"Fix bug", "-p", v>> : v \in {"", "Low", "low", "medium", "constructor"}}
              \cup {<<"Fix bug", "-p">>}

AddOnce ==
  \E loaded \in {loadTasks} : \E args \in AddCalls : \E written \in {runAdd(args, loaded)} :
    \E write \in WriteOutcomes, cut \in CutTexts : \E o \in {Saving(written, write, cut)} :
      Once("runAdd", args, o)

DoneOnce ==
  \E loaded \in {loadTasks} : \E args \in DoneArgLists : \E written \in {runDone(args, loaded)} :
    \E write \in WriteOutcomes, cut \in CutTexts : \E o \in {Saving(written, write, cut)} :
      Once("runDone", args, o)

\* The pipeline of runList on the loaded array: filterTasks, then sortTasks
\* on what it returned; the arrays as they are after each call.
PipelineOnce ==
  /\ op = "init"
  /\ \E found \in {loadTasks} : \E args \in ListArgLists :
     \E loaded \in {IF found.threw THEN <<>> ELSE found.value.items} :
     \E filtering \in {filterTasksCall(loaded, parseListArgs(args))} :
     \E sorted \in SortOutcomes(filtering.returns.items) :
     \E sorting \in {sortTasksCall(filtering.returns.items, sorted)} :
       /\ ~found.threw
       /\ validateFilters(parseListArgs(args)) = "ok"
       /\ ~filterTasksRaises(loaded, parseListArgs(args))
       /\ input' = [args |-> args, existed |-> fileExists, before |-> fileContents, wrote |-> FALSE]
       /\ tasks' = [loaded |-> loaded, loadedAfter |-> filtering.argument.items,
                    filtered |-> filtering.returns.items, filteredAfter |-> sorting.argument.items,
                    filteredRef |-> filtering.returns.ref, sortedRef |-> sorting.returns.ref]
       /\ ret' = Returned(Arr(sorting.returns.items))
  /\ op' = "pipeline"
  /\ UNCHANGED <<fileExists, fileContents, today, result, assigned, lastAdd, doneLog>>

NextOnce == ListOnce \/ ShowOnce \/ AddOnce \/ DoneOnce \/ PipelineOnce

SpecOnce == InitOnce /\ [][NextOnce]_vars

\* C21: the query pipeline has no side effect. runList and runShow leave the
\* store as they found it, whatever it holds and whatever their arguments;
\* filterTasks and sortTasks leave the array given to them, and so every
\* record in it, as it was.
C21_NoSideEffect ==
  /\ op \in {"runList", "runShow"} =>
       ~input.wrote /\ fileExists = input.existed /\ fileContents = input.before
  /\ op = "pipeline" =>
       /\ tasks.loadedAfter = tasks.loaded
       /\ tasks.filteredAfter = tasks.filtered
       /\ fileExists = input.existed /\ fileContents = input.before

\* C21 witness: a list of everything has sorted two stored records into
\* another order, and the store is as before.
C21_Witness ==
  /\ op = "runList" /\ input.args = <<"-a", "-p", "HIGH">>
  /\ result.kind = "listed"
  /\ fileContents = input.before /\ fileContents \in EditedStores

\* C21 witness of the pipeline: the sorted array differs from the loaded one.
C21_Sorted ==
  /\ op = "pipeline" /\ Len(ret.value.items) = 2
  /\ ret.value.items # tasks.loaded /\ tasks.loadedAfter = tasks.loaded

\* The records of the store the invocation found.
C22_Before == IF input.existed THEN StoredIn(input.before) ELSE <<>>

\* The first record of the store found whose id the argument names; none
\* when the argument is no id or no record has it.
C22_Named ==
  LET ids == {i \in 1..9 : input.args = <<IntText(i)>>}
      at == {k \in 1..Len(C22_Before) : \A i \in ids : Get(C22_Before[k], "id") = Num(i)}
  IN  IF ids = {} \/ at = {} THEN Null
      ELSE C22_Before[CHOOSE k \in at : \A j \in at : k <= j]

\* Every entry of the store found is a record whose tags, if it has any,
\* are a list.
C26_Shaped ==
  \A k \in 1..Len(C22_Before) :
    /\ C22_Before[k].type = "object"
    /\ Get(C22_Before[k], "tags").type \in {"undefined", "null", "array"}

\* C22: runDone on the id of a record that is done already succeeds with
\* exit code 0 and the already-complete warning, does not write the store,
\* and leaves that record, its completed date included, and every other
\* record as they were.
C22_AlreadyDone ==
  (op = "runDone" /\ Get(C22_Named, "status") = Str("done")) =>
    /\ result.success /\ result.exitCode = 0 /\ result.kind = "already"
    /\ ~input.wrote
    /\ fileContents = input.before
    /\ StoredTasks = C22_Before

\* C22 for the stores whose entries are records with tags that are lists
\* or missing.
C22_ShapedAlreadyDone ==
  (op = "runDone" /\ Get(C22_Named, "status") = Str("done") /\ C26_Shaped) =>
    /\ result.success /\ result.exitCode = 0 /\ result.kind = "already"
    /\ ~input.wrote
    /\ fileContents = input.before
    /\ StoredTasks = C22_Before

\* C22 witness: done 2 on a later day over a store whose record 2 was
\* completed on day 2, after another record.
C22_Witness ==
  /\ op = "runDone" /\ input.args = <<"2">> /\ today # 2
  /\ Len(C22_Before) = 2
  /\ Get(C22_Before[2], "id") = Num(2) /\ Get(C22_Before[2], "status") = Str("done")
  /\ result.kind = "already"
  /\ Get(StoredTasks[2], "completed") = Str(DateText(2))

\* C23: failure leaves the store untouched. Every runAdd and runDone that
\* returns exit code 1, a save error included, leaves the store exactly as
\* it found it and creates no file where there was none.
C23_FailureUntouched ==
  (op \in {"runAdd", "runDone"} /\ result.exitCode = 1) =>
    fileExists = input.existed /\ fileContents = input.before

\* C23 for the failures other than a write that fails after the open.
C23_UntouchedUnlessCut ==
  (op \in {"runAdd", "runDone"} /\ result.exitCode = 1 /\ ~input.wrote) =>
    fileExists = input.existed /\ fileContents = input.before

\* A done on an id that no record has, has failed and the store is as found.
C23_Witness ==
  /\ op = "runDone" /\ result.kind = "NOT_FOUND" /\ result.exitCode = 1
  /\ input.existed /\ fileContents = input.before /\ fileContents \in EditedStores

C25_Default ==
  /\ op = "runAdd" /\ result.kind = "added" /\ input.args = <<"Fix bug">>
  /\ Get(StoredTasks[Len(StoredTasks)], "priority") = Str("medium")

\* C26: persisted data never makes a command fail with an error raised.
\* For every store that loadTasks accepts, runList, runShow and runDone
\* return a result.
C26_NeverRaises ==
  (op \in {"runList", "runShow", "runDone"} /\ input.before.node # "invalid") =>
    result.kind # "UNCAUGHT"

\* C26 for the stores whose entries are records with tags that are lists
\* or missing: an unrecognised priority, an unknown or missing status, a
\* missing id raise nothing.
C26_ShapedNeverRaises ==
  (op \in {"runList", "runShow", "runDone"} /\ input.before.node # "invalid" /\ C26_Shaped) =>
    result.kind # "UNCAUGHT"

\* A list of everything over a store of a record without status and tags
\* and a record without id has listed both.
C26_Witness ==
  /\ op = "runList" /\ input.args = <<>> /\ result.kind = "listed" /\ Len(result.shown) = 2
  /\ Len(C22_Before) = 2
  /\ \E k \in 1..2 : "id" \notin Keys(C22_Before[k])
  /\ \E k \in 1..2 : "status" \notin Keys(C22_Before[k])

\* The place in the store found of the first record with the id the
\* argument names; 0 when there is none.
C28_At ==
  LET at == {k \in 1..Len(C22_Before) : C22_Before[k] = C22_Named}
  IN  IF C22_Named = Null \/ at = {} THEN 0 ELSE CHOOSE k \in at : \A j \in at : k <= j

\* C28: frame of done. A successful runDone on a record that is not done
\* changes the status and completed fields of that record and nothing
\* else: its other fields, every other record, the number of records and
\* their order are as before.
C28_DoneFrame ==
  (op = "runDone" /\ result.success /\ result.kind = "completed") =>
    /\ C28_At # 0
    /\ Get(C22_Before[C28_At], "status") # Str("done")
    /\ Len(StoredTasks) = Len(C22_Before)
    /\ \A j \in 1..Len(C22_Before) : j # C28_At => StoredTasks[j] = C22_Before[j]
    /\ Keys(StoredTasks[C28_At]) = Keys(C22_Before[C28_At]) \cup {"status", "completed"}
    /\ \A f \in Keys(C22_Before[C28_At]) \ {"status", "completed"} :
         Get(StoredTasks[C28_At], f) = Get(C22_Before[C28_At], f)
    /\ Get(StoredTasks[C28_At], "status") = Str("done")
    /\ Get(StoredTasks[C28_At], "completed") = Str(DateText(today))

\* Done 1 on day 2 over a store of the open record 1 of day 1 and a second
\* record: record 1 is done, completed on day 2, created on day 1.
C28_Witness ==
  /\ op = "runDone" /\ input.args = <<"1">> /\ result.kind = "completed" /\ today = 2
  /\ Len(C22_Before) = 2 /\ Len(StoredTasks) = 2
  /\ Get(C22_Before[1], "status") = Str("open")
  /\ Get(StoredTasks[1], "status") = Str("done")
  /\ Get(StoredTasks[1], "created") = Str(DateText(1))
  /\ Get(StoredTasks[1], "tags") = Arr(<<Str("bug")>>)
  /\ StoredTasks[2] = C22_Before[2]

\* C29: frame of add. A successful runAdd leaves one record more in the
\* store, the new one, at the end; the records stored before are all there,
\* unchanged and in the same order.
C29_AddFrame ==
  (op = "runAdd" /\ result.success /\ result.kind = "added") =>
    /\ Len(StoredTasks) = Len(C22_Before) + 1
    /\ \A j \in 1..Len(C22_Before) : StoredTasks[j] = C22_Before[j]
    /\ Get(StoredTasks[Len(StoredTasks)], "id") = Num(result.id)
    /\ Get(StoredTasks[Len(StoredTasks)], "status") = Str("open")

\* An add over a store of two records, the second without status and tags,
\* has put 'Fix bug' third; the two are as they were.
C29_Witness ==
  /\ op = "runAdd" /\ result.kind = "added" /\ input.args = <<"Fix bug">>
  /\ Len(C22_Before) = 2 /\ Len(StoredTasks) = 3
  /\ "status" \notin Keys(C22_Before[2])
  /\ StoredTasks[1] = C22_Before[1] /\ StoredTasks[2] = C22_Before[2]
  /\ StoredTasks[1] # StoredTasks[2]
  /\ Get(StoredTasks[3], "text") = Str("Fix bug")

\* C30: every result that runAdd, runDone, runList or runShow returns, on
\* every argument list and store, has success true exactly when its exit
\* code is 0, and its exit code is 0 or 1.
C30_ExitCode ==
  (op \in {"runAdd", "runDone", "runList", "runShow"} /\ result.kind # "UNCAUGHT") =>
    /\ result.success <=> result.exitCode = 0
    /\ result.exitCode \in {0, 1}

\* A done on the only record of a store, which is done, returned success
\* with exit code 0.
C30_Witness ==
  /\ op = "runDone" /\ result.kind = "already" /\ result.success /\ result.exitCode = 0
  /\ input.args = <<"2">> /\ Len(C22_Before) = 1

\* Results with exit code 1 of each command: a save error of an add, an id
\* not found by show, a priority that list rejects.
C30_Failures ==
  \/ op = "runAdd" /\ result.kind = "SAVE_ERROR" /\ ~result.success /\ result.exitCode = 1
  \/ op = "runShow" /\ result.kind = "NOT_FOUND" /\ ~result.success /\ result.exitCode = 1
  \/ op = "runList" /\ ~result.success /\ result.exitCode = 1 /\ input.before.node # "invalid"

(***************************************************************************)
(* SpecRace: two invocations run as two processes on one store.  Each      *)
(* loads the file, changes the array it holds in memory, and writes the    *)
(* whole file; nothing orders the steps of one against those of the other. *)
(* op is the position of each process, input its command, ret the outcome  *)
(* it has computed from what it loaded, doneLog the steps in their order,  *)
(* tasks the records the store held at the start.                          *)
(***************************************************************************)
Procs == {1, 2}

RaceLen == 1    \* longest store the two processes start from

\* The first process adds; the second adds, or marks done.
RaceCalls(p) ==
  IF p = 1 THEN {[cmd |-> "runAdd", args |-> <<"Fix bug">>]}
  ELSE { [cmd |-> "runAdd", args |-> <<"Write docs", "-p", "HIGH", "-t", " api ">>],
         [cmd |-> "runDone", args |-> <<"1">>],
         [cmd |-> "runDone", args |-> <<"2">>] }

\* The command of a process on the tasks it loaded.
RaceRun(call, loaded) ==
  IF call.cmd = "runAdd" THEN runAdd(call.args, loaded) ELSE runDone(call.args, loaded)

InitRace ==
  /\ \/ fileExists = FALSE /\ fileContents = BlankText
     \/ fileExists = TRUE /\ fileContents \in {saveTasks(Arr(q)) : q \in SeqsUpTo(FileTasks, RaceLen)}
  /\ today \in 1..MaxDay
  /\ result = NoResult
  /\ assigned = {}
  /\ lastAdd = NoAdd
  /\ doneLog = <<>>
  /\ tasks = Arr(IF fileExists THEN StoredIn(fileContents) ELSE <<>>)
  /\ input \in {f \in [Procs -> UNION {RaceCalls(p) : p \in Procs}] : \A p \in Procs : f[p] \in RaceCalls(p)}
  /\ ret = [p \in Procs |-> NoCall]
  /\ op = [p \in Procs |-> "start"]

\* A process that waits while the other is between its load and its save,
\* as under a lock on the store.
RaceMayLoad_Locked(p) ==
  op[p] = "start" /\ \A q \in Procs : op[q] # "loaded"

\* When process p may load: as soon as it has started.  The command takes
\* no lock and looks at nothing but the file.
RaceMayLoad(p) ==
  op[p] = "start"

\* Process p runs its command up to the write: it reads the file as it is
\* now and computes its result and the text it is going to write.
RaceLoad(p) ==
  /\ RaceMayLoad(p)
  /\ \E loaded \in {loadTasks} : \E o \in {RaceRun(input[p], loaded)} :
       /\ ret' = [ret EXCEPT ![p] = o]
       /\ op' = [op EXCEPT ![p] = "loaded"]
       /\ doneLog' = Append(doneLog, [p |-> p, step |-> "load"])
  /\ UNCHANGED <<fileExists, fileContents, today, result, assigned, lastAdd, tasks, input>>

\* Process p writes the file, if its command writes, and returns.
RaceSave(p) ==
  /\ op[p] = "loaded"
  /\ fileExists' = (fileExists \/ ret[p].wrote)
  /\ fileContents' = IF ret[p].wrote THEN ret[p].contents ELSE fileContents
  /\ result' = ret[p].result
  /\ op' = [op EXCEPT ![p] = "finished"]
  /\ doneLog' = Append(doneLog, [p |-> p, step |-> "save"])
  /\ UNCHANGED <<today, assigned, lastAdd, tasks, input, ret>>

NextRace ==
  \/ \E p \in Procs : RaceLoad(p)
  \/ \E p \in Procs : RaceSave(p)

SpecRace == InitRace /\ [][NextRace]_vars

\* Both processes have returned, and both had loaded before either wrote.
C27_Interleaved ==
  /\ \A p \in Procs : op[p] = "finished"
  /\ Len(doneLog) = 4
  /\ doneLog[1].step = "load" /\ doneLog[2].step = "load"

\* The task process p reports as added is in the store.
C27_Kept(p) ==
  \E k \in 1..Len(StoredTasks) :
    /\ Get(StoredTasks[k], "id") = Num(ret[p].result.id)
    /\ Get(StoredTasks[k], "text") = Str(input[p].args[1])

\* C27: lost update. No lock holds a process back: a process that has not
\* loaded yet can load whatever the other is doing.  And when both have
\* loaded before either writes and both write, the store is what the last
\* writer wrote: a task the first writer added is missing from it.
C27_LostUpdate ==
  /\ \A p \in Procs : op[p] = "start" => RaceMayLoad(p)
  /\ (C27_Interleaved /\ \A p \in Procs : ret[p].wrote) =>
       LET first == doneLog[3].p
           last == doneLog[4].p
       IN  /\ fileContents = ret[last].contents
           /\ ret[first].result.kind = "added" =>
                /\ ret[first].result.success /\ ret[first].result.exitCode = 0
                /\ ~C27_Kept(first)

\* Two adds on a store of one record have both succeeded and reported id 2;
\* the store holds two records and 'Fix bug', added by the first, is not
\* among them.
C27_Witness ==
  /\ C27_Interleaved
  /\ \A p \in Procs : input[p].cmd = "runAdd" /\ ret[p].result.kind = "added" /\ ret[p].result.id = 2
  /\ doneLog[3].p = 1
  /\ Len(tasks.items) = 1 /\ Len(StoredTasks) = 2
  /\ Get(StoredTasks[2], "text") = Str("Write docs")
  /\ ~C27_Kept(1)

\* An add and a done have both succeeded, the done wrote last, and the task
\* added is not in the store.
C27_AddThenDone ==
  /\ C27_Interleaved
  /\ input[2].cmd = "runDone" /\ ret[2].result.kind = "completed" /\ ret[1].result.kind = "added"
  /\ doneLog[4].p = 2
  /\ Len(StoredTasks) = Len(tasks.items)

\* Without interleaving, one process running after the other, nothing is
\* lost: the task each add reports is in the store at the end.
C27_SerialKeeps ==
  (/\ \A p \in Procs : op[p] = "finished"
   /\ doneLog[1].p = doneLog[2].p) =>
     \A p \in Procs : ret[p].result.kind = "added" => C27_Kept(p)

====
